---- MODULE Spec2Model ----
(***************************************************************************)
(* Concurrency and messaging core of saucer / saucer-bindings:             *)
(*   - the main-thread guard every public operation opens with, and the    *)
(*     dispatcher (application::thread_safe / post / dispatch / run /      *)
(*     quit) it forwards through;                                          *)
(*   - the window event registry and the WM_CLOSE handler that fires the   *)
(*     vetoable close event.                                               *)
(*                                                                         *)
(* Spec     : threads calling guarded window operations while the main     *)
(*            loop starts, runs and stops (GTK and Cocoa window backends,  *)
(*            Cocoa application).                                          *)
(* SpecPost : the same threads handing callbacks to application::post;     *)
(*            FairPost adds that a running loop keeps serving its queue.   *)
(* SpecEv   : the event registry of win32 windows and                      *)
(*            window::impl::wnd_proc handling WM_CLOSE.                    *)
(***************************************************************************)
EXTENDS Integers, Sequences, FiniteSets, TLC

\* ------------------------------------------------------------------ bounds
\* number of callbacks handed to application::post in one run
MaxPosts == 2
\* number of on/once registrations in one run (all windows, all kinds)
MaxListeners == 3
\* number of WM_CLOSE messages delivered to wnd_proc in one run
MaxFires == 2
\* number of listeners registered on windows that are later destroyed
MaxDtorListeners == 2
\* number of calls the host makes through one bridge
MaxCalls == 2
\* number of calls one bridge receives from hosted content
MaxInbound == 2
\* number of copies made of one lazy stash
MaxCopies == 2
\* the longest element sequence a stash is made from
MaxElems == 2
\* handle_scheme / remove_scheme calls made on one webview
MaxSchemeOps == 3
\* scheme requests the platform hands to one webview
MaxRequests == 2
\* wait-loop iterations that are counted (the loop itself is not bounded)
MaxSpins == 2
\* accessor calls made on one received scheme request and its copy
MaxReads == 3
\* window constructions attempted in one process
MaxConstructions == 4
\* blocking main-thread operations (pdf::save, desktop::pick) started
MaxWaits == 2
\* then(future, callback) calls made in one process
MaxThens == 3
\* desktop::pick calls made in one process
MaxPicks == 2
\* items one dialog reports as selected
MaxItems == 2
\* pdf::save calls made on one webview
MaxSaves == 2
\* calls and page notifications on one Qt webview
MaxViewOps == 4
\* WM_SIZE messages delivered to one win32 window
MaxSizes == 3

\* ----------------------------------------------------------------- threads
MainThread == "main"
Workers == {"w1", "w2"}
Threads == {MainThread} \cup Workers

Backends == {"gtk", "cocoa"}
Titles == {"a"}
Edges == {"top", "left", "top|left"}
NoArg == "-"

VARIABLES
    backend,    \* window backend the build selected
    m_thread,   \* application::impl::thread, set by the constructor
    loop,       \* main loop: "idle" (not started), "running", "stopped"
    queue,      \* the main queue: blocks handed to dispatch_async, in order
    pc,         \* per thread: "ready", or "waiting" inside dispatch
    win,        \* native state of the window the operations act on
    equiv,      \* every call so far acted as the same call on the main thread
    log,        \* which thread executed what, and on whose behalf
    nposted,    \* callbacks handed to post so far
    invoked,    \* per posted callback: times it was invoked
    released,   \* per posted callback: times its heap copy was deleted
    m_events,   \* per window, per event kind: the listeners, in order
    counter,    \* per window, per event kind: the last listener id given out
    calls,      \* per listener registered with once: times it was invoked
    fired,      \* what the last fire did
    shown,      \* per win32 window: whether it is visible
    instances,  \* application impl: window -> shown flag ("none" = no entry)
    quits,      \* times application::quit was requested by a close
    nreg,       \* registrations so far
    nfire,      \* events delivered so far
    alive,      \* per window: constructed and not yet destroyed
    ser,        \* serializer::parse: the wire string given and what it returned
    handle,     \* saucer_handle: its callbacks and what on_message did
    bridge,     \* RPC bridge: id counter, pending table, traffic
    lazy,       \* lazy stash: shared state of the deferred callback, holders
    box,        \* a stash made by from / view / lazy / empty and what reading it gave
    web,        \* webview: scheme handlers and the request in flight
    req,        \* scheme::request: the platform request it wraps, what was read
    ctor,       \* window constructions attempted, by thread
    spin,       \* a blocking main-thread operation and the main context it iterates
    wsize,      \* win32 window: the size state WM_SIZE tracks and what the last message fired
    view,       \* Qt webview: DOM flag, pending scripts, dev-tools page
    job,        \* pdf::save: the print job and the wait for its notification
    dlg,        \* gtk desktop::pick: the dialog, its callback and the promise
    picked,     \* win32 / qt desktop::pick: what the dialog gave and what was returned
    fut         \* then(): the future, the detached thread and the callback

dvars == <<backend, m_thread, loop, queue, pc, win, equiv, log, nposted, invoked, released>>
evars == <<m_events, counter, calls, fired, shown, instances, quits, nreg, nfire>>
ovars == <<alive, ser, handle, bridge, lazy>>
svars == <<box, web, req, ctor, spin>>
xvars == <<wsize, view, job, dlg, picked, fut>>
vars == <<backend, m_thread, loop, queue, pc, win, equiv, log, nposted, invoked, released,
          m_events, counter, calls, fired, shown, instances, quits, nreg, nfire,
          alive, ser, handle, bridge, lazy, box, web, req, ctor, spin,
          wsize, view, job, dlg, picked, fut>>

\* =================================================================
\* Dispatcher and guarded operations
\* =================================================================

\* application::thread_safe: the calling thread is the constructing thread
thread_safe_always(t) == TRUE
thread_safe_inverted(t) == m_thread # t
thread_safe(t) == m_thread = t

\* window_edge -> GdkSurfaceEdge, the switch of gtk window::start_resize;
\* a value matching no case leaves translated{} = 0 = GDK_SURFACE_EDGE_NORTH_WEST
translate(edge) ==
    CASE edge = "top" -> "NORTH"
      [] edge = "bottom" -> "SOUTH"
      [] edge = "left" -> "WEST"
      [] edge = "right" -> "EAST"
      [] edge = "top|left" -> "NORTH_WEST"
      [] edge = "top|right" -> "NORTH_EAST"
      [] edge = "bottom|left" -> "SOUTH_WEST"
      [] edge = "bottom|right" -> "SOUTH_EAST"
      [] OTHER -> "NORTH_WEST"

\* the operations of the window, with the arguments the model draws
Calls ==
    [op : {"set_title"}, arg : Titles]
    \cup [op : {"start_resize"}, arg : Edges]
    \cup [op : {"show", "hide", "start_drag", "title"}, arg : {NoArg}]

\* the work user code dispatches directly
PostCalls == [op : {"set_title"}, arg : Titles]

\* the part of each operation after its guard, run on window state w
set_title(w, title) == [w EXCEPT !.title = title]
show(w) == [w EXCEPT !.inst = TRUE, !.visible = TRUE]
hide(w) == [w EXCEPT !.visible = FALSE]
start_drag(w) ==
    IF backend = "gtk" /\ ~w.prev_data THEN w ELSE [w EXCEPT !.drag = TRUE]
start_resize(w, edge) ==
    IF backend = "cocoa" THEN [w EXCEPT !.edge = edge]
    ELSE IF ~w.prev_data THEN w
    ELSE [w EXCEPT !.edge = translate(edge)]

Body(c, w) ==
    CASE c.op = "set_title" -> set_title(w, c.arg)
      [] c.op = "show" -> show(w)
      [] c.op = "hide" -> hide(w)
      [] c.op = "start_drag" -> start_drag(w)
      [] c.op = "start_resize" -> start_resize(w, c.arg)
      [] OTHER -> w

\* what the operation returns to its caller
Result(c, w) == IF c.op = "title" THEN w.title ELSE "void"

\* the closure the guard of operation c hands to dispatch
Forward(c) ==
    IF backend = "cocoa" /\ c.op = "start_resize"
    THEN [op |-> "start_drag", arg |-> NoArg]
    ELSE c

\* the work runs here, on thread t, for caller by
RunWork(t, by, c, work, via) ==
    /\ win' = Body(work, win)
    /\ equiv' = (equiv /\ Body(work, win) = Body(c, win)
                       /\ Result(work, win) = Result(c, win))
    /\ log' = log \cup {[thread |-> t, by |-> by, via |-> via, safe |-> thread_safe(t)]}

\* application::dispatch: in place on the main-loop thread, otherwise the
\* work is posted and the caller blocks until it has run
dispatch(t, c, work) ==
    IF thread_safe(t)
    THEN RunWork(t, t, c, work, "direct") /\ UNCHANGED <<queue, pc>>
    ELSE /\ queue' = Append(queue, [kind |-> "task", from |-> t, call |-> c, work |-> work, id |-> 0])
         /\ pc' = [pc EXCEPT ![t] = "waiting"]
         /\ UNCHANGED <<win, equiv, log>>

\* a public operation called on thread t: the guard, then the body
Call(t, c) ==
    /\ pc[t] = "ready"
    /\ IF ~thread_safe(t)
       THEN dispatch(t, c, Forward(c))
       ELSE RunWork(t, t, c, c, "direct") /\ UNCHANGED <<queue, pc>>
    /\ UNCHANGED <<backend, m_thread, loop, nposted, invoked, released>>
    /\ UNCHANGED <<evars, ovars, svars, xvars>>

\* application::dispatch called by user code on thread t with work c
user_dispatch(t, c) ==
    /\ pc[t] = "ready"
    /\ dispatch(t, c, c)
    /\ UNCHANGED <<backend, m_thread, loop, nposted, invoked, released>>
    /\ UNCHANGED <<evars, ovars, svars, xvars>>

\* the pointer device delivers an event to the GTK window (impl::prev_data)
Click ==
    /\ backend = "gtk"
    /\ ~win.prev_data
    /\ win' = [win EXCEPT !.prev_data = TRUE]
    /\ UNCHANGED <<backend, m_thread, loop, queue, pc, equiv, log, nposted, invoked, released>>
    /\ UNCHANGED <<evars, ovars, svars, xvars>>

\* dispatch_get_main_queue: the queue post hands its block to is served by
\* the process's main thread
dispatch_get_global_queue == "w1"
dispatch_get_main_queue == MainThread

\* the unique_ptr of the posted block deletes the callback once
release_never(n) == n
release(n) == n + 1

\* application::post: heap-copy the callback, dispatch_async it to the main queue
post(t) ==
    /\ pc[t] = "ready"
    /\ nposted < MaxPosts
    /\ nposted' = nposted + 1
    /\ queue' = Append(queue, [kind |-> "cb", from |-> NoArg, call |-> [op |-> "cb", arg |-> NoArg],
                               work |-> [op |-> "cb", arg |-> NoArg], id |-> nposted + 1])
    /\ UNCHANGED <<backend, m_thread, loop, pc, win, equiv, log, invoked, released>>
    /\ UNCHANGED <<evars, ovars, svars, xvars>>

\* the main thread takes the block at the head of the main queue and runs it
RunHead ==
    /\ pc[dispatch_get_main_queue] = "ready"
    /\ queue # <<>>
    /\ LET item == Head(queue) IN
       /\ queue' = Tail(queue)
       /\ IF item.kind = "cb"
          THEN /\ invoked' = [invoked EXCEPT ![item.id] = @ + 1]
               /\ released' = [released EXCEPT ![item.id] = release(@)]
               /\ log' = log \cup {[thread |-> dispatch_get_main_queue, by |-> item.from,
                                    via |-> "post", safe |-> thread_safe(dispatch_get_main_queue)]}
               /\ UNCHANGED <<win, equiv, pc>>
          ELSE /\ RunWork(dispatch_get_main_queue, item.from, item.call, item.work, "queue")
               /\ pc' = [pc EXCEPT ![item.from] = "ready"]
               /\ UNCHANGED <<invoked, released>>
    /\ UNCHANGED <<backend, m_thread, loop, nposted>>
    /\ UNCHANGED <<evars, ovars, svars, xvars>>

\* application::run<true>: [NSApp run] starts serving the main queue
run ==
    /\ loop = "idle"
    /\ loop' = "running"
    /\ UNCHANGED <<backend, m_thread, queue, pc, win, equiv, log, nposted, invoked, released>>
    /\ UNCHANGED <<evars, ovars, svars, xvars>>

\* one iteration of the running loop
LoopStep ==
    /\ loop = "running"
    /\ RunHead

\* application::run<false>: one event is taken and sent, outside run<true>
run_once ==
    /\ loop # "running"
    /\ RunHead

\* application::quit: [NSApp stop], after which run<true> returns
quit ==
    /\ loop = "running"
    /\ loop' = "stopped"
    /\ UNCHANGED <<backend, m_thread, queue, pc, win, equiv, log, nposted, invoked, released>>
    /\ UNCHANGED <<evars, ovars, svars, xvars>>

\* =================================================================
\* Event registry (ereignis events held in window::m_events) and wnd_proc
\* =================================================================
Windows == {"A", "B"}
\* the windows listeners are registered on; the others take part through
\* the instance table only
Listened == {"A"}
Kinds == {"close", "closed"}
\* what a close listener answers: policy::block vetoes, policy::allow does not
Policies == {"block", "allow"}

\* a listener: its id, whether it was registered with once, what it answers
Listener(id, o, ans) == [id |-> id, once |-> o, ans |-> ans]

Ids(slot) == [i \in 1..Len(slot) |-> slot[i].id]

\* event::add: a repeatable listener, after those already registered
add(slot, id, ans) == Append(slot, Listener(id, FALSE, ans))

\* event::once: a listener that is removed when it is first invoked
once(slot, id, ans) == Append(slot, Listener(id, TRUE, ans))

\* event::remove: the listener of that id, if any
remove_first(slot, id) == IF slot = <<>> THEN slot ELSE Tail(slot)
remove(slot, id) == SelectSeq(slot, LAMBDA l : l.id # id)

\* event::fire: every listener, in order. <<listeners invoked, slot afterwards>>
fire(slot) == <<slot, SelectSeq(slot, LAMBDA l : ~l.once)>>

\* position of the first listener answering value, 0 when there is none
FirstAnswer(slot, value) ==
    IF \E i \in 1..Len(slot) : slot[i].ans = value
    THEN CHOOSE i \in 1..Len(slot) :
             /\ slot[i].ans = value
             /\ \A j \in 1..(i - 1) : slot[j].ans # value
    ELSE 0

\* event::until(value): listeners are invoked in order until one answers
\* value; the listeners after it are not invoked.
\* <<listeners invoked, slot afterwards, whether one answered value>>
until_all(slot, value) ==
    <<slot, SelectSeq(slot, LAMBDA l : ~l.once), FirstAnswer(slot, value) # 0>>
until(slot, value) ==
    LET k == FirstAnswer(slot, value)
        n == IF k = 0 THEN Len(slot) ELSE k
    IN <<SubSeq(slot, 1, n),
         SelectSeq(SubSeq(slot, 1, n), LAMBDA l : ~l.once) \o SubSeq(slot, n + 1, Len(slot)),
         k # 0>>

\* the invocation counts after the listeners of ran were invoked once each
Count(w, k, ran) ==
    [key \in DOMAIN calls |->
        IF key[1] = w /\ key[2] = k /\ \E i \in 1..Len(ran) : ran[i].id = key[3]
        THEN calls[key] + 1 ELSE calls[key]]

Register(w, k, slot, oneshot) ==
    /\ nreg < MaxListeners
    /\ nreg' = nreg + 1
    /\ counter' = [counter EXCEPT ![w][k] = @ + 1]
    /\ m_events' = [m_events EXCEPT ![w][k] = slot]
    /\ calls' = IF oneshot
                THEN [key \in DOMAIN calls \cup {<<w, k, counter[w][k] + 1>>} |->
                         IF key \in DOMAIN calls THEN calls[key] ELSE 0]
                ELSE calls
    /\ UNCHANGED <<fired, shown, instances, quits, nfire>>
    /\ UNCHANGED <<dvars, ovars, svars, xvars>>

Answers(k) == IF k = "close" THEN Policies ELSE {NoArg}

\* window::on<Event>, on the main thread
window_on(w, k, ans) ==
    Register(w, k, add(m_events[w][k], counter[w][k] + 1, ans), FALSE)

\* window::once<Event>, on the main thread
window_once_repeats(w, k, ans) ==
    Register(w, k, add(m_events[w][k], counter[w][k] + 1, ans), TRUE)
window_once(w, k, ans) ==
    Register(w, k, once(m_events[w][k], counter[w][k] + 1, ans), TRUE)

\* window::remove, on the main thread
window_remove(w, k, id) ==
    /\ m_events' = [m_events EXCEPT ![w][k] = remove(@, id)]
    /\ m_events' # m_events
    /\ UNCHANGED <<counter, calls, fired, shown, instances, quits, nreg, nfire>>
    /\ UNCHANGED <<dvars, ovars, svars, xvars>>

\* window::clear, on the main thread
window_clear(w, k) ==
    /\ m_events[w][k] # <<>>
    /\ m_events' = [m_events EXCEPT ![w][k] = <<>>]
    /\ UNCHANGED <<counter, calls, fired, shown, instances, quits, nreg, nfire>>
    /\ UNCHANGED <<dvars, ovars, svars, xvars>>

\* window::show, on the main thread
window_show(w) ==
    /\ ~shown[w] \/ instances[w] # "true"
    /\ instances' = [instances EXCEPT ![w] = "true"]
    /\ shown' = [shown EXCEPT ![w] = TRUE]
    /\ UNCHANGED <<m_events, counter, calls, fired, quits, nreg, nfire>>
    /\ UNCHANGED <<dvars, ovars, svars, xvars>>

\* std::ranges::any_of(instances | std::views::values, std::identity{})
AnyShownIgnored(inst) == FALSE
AnyShown(inst) == \E w \in Windows : inst[w] = "true"

\* if (close.until(policy::block)) return 0; u is what until returned
CloseVetoedNot(u) == ~u[3]
CloseVetoedNever(u) == FALSE
CloseVetoed(u) == u[3]

\* the statements of the WM_CLOSE case in the order they are written: the
\* close event, window->hide(), the closed event, instances.erase(hwnd), the
\* test that may call parent->quit()
close_order_closed_first == <<"close", "closed", "hide", "erase", "quit">>
close_order == <<"close", "hide", "closed", "erase", "quit">>

\* the handler's run through these statements: for each statement reached,
\* whether hide() and erase() have been executed by then; a vetoed close
\* event returns at once
NotYet == [hidden |-> FALSE, erased |-> FALSE, steps |-> <<>>]
RECURSIVE close_steps(_, _, _)
close_steps(order, at, vetoed) ==
    IF order = <<>> THEN at.steps
    ELSE LET s == Head(order)
             nxt == [hidden |-> at.hidden \/ s = "hide",
                     erased |-> at.erased \/ s = "erase",
                     steps |-> Append(at.steps, [step |-> s, hidden |-> at.hidden,
                                                 erased |-> at.erased])]
         IN IF s = "close" /\ vetoed THEN nxt.steps ELSE close_steps(Tail(order), nxt, vetoed)

\* wnd_proc, WM_CLOSE
wm_close(w) ==
    /\ nfire < MaxFires
    /\ nfire' = nfire + 1
    /\ LET u == until(m_events[w]["close"], "block")
           f == fire(m_events[w]["closed"])
           erased == [instances EXCEPT ![w] = "none"]
       IN IF CloseVetoed(u)
          THEN /\ m_events' = [m_events EXCEPT ![w]["close"] = u[2]]
               /\ calls' = Count(w, "close", u[1])
               /\ fired' = [msg |-> "WM_CLOSE", w |-> w, had |-> m_events[w]["close"],
                            ran |-> u[1], blocked |-> u[3],
                            hadClosed |-> m_events[w]["closed"], ranClosed |-> <<>>,
                            steps |-> close_steps(close_order, NotYet, TRUE)]
               /\ UNCHANGED <<shown, instances, quits>>
          ELSE /\ m_events' = [m_events EXCEPT ![w]["close"] = u[2], ![w]["closed"] = f[2]]
               /\ shown' = [shown EXCEPT ![w] = FALSE]
               /\ instances' = erased
               /\ quits' = IF ~AnyShown(erased) THEN quits + 1 ELSE quits
               /\ calls' = [key \in DOMAIN calls |->
                               IF key[1] = w /\ key[2] = "close"
                                  /\ \E i \in 1..Len(u[1]) : u[1][i].id = key[3]
                               THEN calls[key] + 1
                               ELSE IF key[1] = w /\ key[2] = "closed"
                                       /\ \E i \in 1..Len(f[1]) : f[1][i].id = key[3]
                               THEN calls[key] + 1
                               ELSE calls[key]]
               /\ fired' = [msg |-> "WM_CLOSE", w |-> w, had |-> m_events[w]["close"],
                            ran |-> u[1], blocked |-> u[3],
                            hadClosed |-> m_events[w]["closed"], ranClosed |-> f[1],
                            steps |-> close_steps(close_order, NotYet, FALSE)]
    /\ UNCHANGED <<counter, nreg>>
    /\ UNCHANGED <<dvars, ovars, svars, xvars>>

\* =================================================================
\* Window destruction (window::~window, gtk and cocoa)
\* =================================================================
\* for (const auto &event : rebind::enum_values<window_event>) m_events.clear(event);
\* ev is the event table of the window
ClearNone(ev) == ev
ClearAll(ev) == [k \in DOMAIN ev |-> <<>>]

\* the close handler of window w run on st: the table of w, its visibility, the
\* instance table, the quit count, and the listeners invoked so far
close_request(st, w) ==
    LET u == until(st.ev["close"], "block")
        f == fire(st.ev["closed"])
        erased == [st.instances EXCEPT ![w] = "none"]
    IN IF CloseVetoed(u)
       THEN [st EXCEPT !.ev = [@ EXCEPT !["close"] = u[2]],
                       !.ran = @ \o u[1], !.blocked = TRUE]
       ELSE [st EXCEPT !.ev = [@ EXCEPT !["close"] = u[2], !["closed"] = f[2]],
                       !.shown = FALSE,
                       !.instances = erased,
                       !.quits = IF ~AnyShown(erased) THEN @ + 1 ELSE @,
                       !.ran = @ \o u[1],
                       !.ranClosed = @ \o f[1]]

\* window::~window: clear every event, then close the native window (gtk:
\* gtk_window_close; cocoa: close() and [window close], two close calls)
destroy(w) ==
    /\ alive[w]
    /\ alive' = [alive EXCEPT ![w] = FALSE]
    /\ LET st0 == [ev |-> ClearAll(m_events[w]), shown |-> shown[w], instances |-> instances,
                   quits |-> quits, ran |-> <<>>, ranClosed |-> <<>>, blocked |-> FALSE]
           st1 == close_request(st0, w)
           st2 == IF backend = "cocoa" THEN close_request(st1, w) ELSE st1
       IN /\ m_events' = [m_events EXCEPT ![w] = st2.ev]
          /\ shown' = [shown EXCEPT ![w] = st2.shown]
          /\ instances' = st2.instances
          /\ quits' = st2.quits
          /\ calls' = [key \in DOMAIN calls |->
                          IF key[1] = w
                             /\ \/ (key[2] = "close" /\ \E i \in 1..Len(st2.ran) : st2.ran[i].id = key[3])
                                \/ (key[2] = "closed" /\ \E i \in 1..Len(st2.ranClosed) :
                                                            st2.ranClosed[i].id = key[3])
                          THEN calls[key] + 1 ELSE calls[key]]
          /\ fired' = [msg |-> "destroy", w |-> w, had |-> m_events[w]["close"], ran |-> st2.ran,
                       blocked |-> st2.blocked, hadClosed |-> m_events[w]["closed"],
                       ranClosed |-> st2.ranClosed, steps |-> <<>>]
    /\ UNCHANGED <<counter, nreg, nfire, ser, handle, bridge, lazy, svars, xvars>>
    /\ UNCHANGED dvars

\* operations on a window that still exists
live_on(w, k, ans) == alive[w] /\ nreg < MaxDtorListeners /\ window_on(w, k, ans)
live_once(w, k, ans) == alive[w] /\ nreg < MaxDtorListeners /\ window_once(w, k, ans)
live_show(w) == alive[w] /\ window_show(w)
live_close(w) == alive[w] /\ wm_close(w)

\* =================================================================
\* Message serializer (serializers::rflpp): wire strings and parse
\* =================================================================
\* A wire string is modelled by what the JSON reader sees in it: whether it
\* is a JSON object at all and, for an object, the text of the value under
\* each key the two envelopes name ("absent" when the key is missing). Keys
\* the envelopes do not name are ignored by the reader.
Absent == "absent"
BoolToks == {"true", "false"}
TagToks == {Absent, "true", "false", "\"yes\""}
IdToks == {Absent, "0", "7", "\"7\""}
NameToks == {Absent, "\"f\"", "\"g\"", "7"}
ParamToks == {Absent, "[]", "[1,2]", "[2,1]"}
ResultToks == {Absent, "1", "\"ok\""}

\* JSON text <-> value, per type
UintTable == {<<"0", 0>>, <<"1", 1>>, <<"2", 2>>, <<"3", 3>>, <<"4", 4>>, <<"5", 5>>, <<"7", 7>>}
StringTable == {<<"\"f\"", "f">>, <<"\"g\"", "g">>, <<"\"ok\"", "ok">>, <<"\"yes\"", "yes">>,
                <<"\"7\"", "7">>}
ArrayTable == {<<"[]", <<>>>>, <<"[1,2]", <<1, 2>>>>, <<"[2,1]", <<2, 1>>>>}

is_bool(tok) == tok \in BoolToks
is_uint(tok) == \E e \in UintTable : e[1] = tok
is_string(tok) == \E e \in StringTable : e[1] = tok
to_uint(tok) == (CHOOSE e \in UintTable : e[1] = tok)[2]
to_string(tok) == (CHOOSE e \in StringTable : e[1] = tok)[2]

\* rfl::Generic: any JSON value; kept as its type and, for an array, its items
NoGeneric == [t |-> "none", items |-> <<>>, text |-> Absent]
to_generic(tok) ==
    IF \E e \in ArrayTable : e[1] = tok
    THEN [t |-> "array", items |-> (CHOOSE e \in ArrayTable : e[1] = tok)[2], text |-> tok]
    ELSE IF is_uint(tok) THEN [t |-> "int", items |-> <<to_uint(tok)>>, text |-> tok]
    ELSE [t |-> "string", items |-> <<>>, text |-> tok]

Objects ==
    [kind : {"object"}, call : TagToks, resolve : TagToks, id : IdToks, name : NameToks,
     params : ParamToks, result : ResultToks]
\* strings that are no JSON object: empty, cut short, not JSON, a JSON array
NonObject(kind) ==
    [kind |-> kind, call |-> Absent, resolve |-> Absent, id |-> Absent, name |-> Absent,
     params |-> Absent, result |-> Absent]
Wires == Objects \cup {NonObject(k) : k \in {"empty", "truncated", "text", "array"}}

\* message_data: unique_ptr<function_data>, unique_ptr<result_data> or monostate
Monostate == [kind |-> "monostate", id |-> 0, name |-> "", params |-> NoGeneric,
              result |-> NoGeneric]

\* Reflector<function_data>::to
function_to_no_params(v) ==
    [kind |-> "function_data", id |-> v.id, name |-> v.name, params |-> NoGeneric,
     result |-> NoGeneric]
function_to(v) ==
    [kind |-> "function_data", id |-> v.id, name |-> v.name, params |-> v.params,
     result |-> NoGeneric]

\* Reflector<result_data>::to
result_to(v) ==
    [kind |-> "result_data", id |-> v.id, name |-> "", params |-> NoGeneric,
     result |-> v.result]

\* rfl::json::read<function_data>: every field of ReflType must be there with
\* its type. <<ok, value>>
read_function(buffer) ==
    IF /\ buffer.kind = "object"
       /\ is_bool(buffer.call)
       /\ is_uint(buffer.id)
       /\ is_string(buffer.name)
       /\ buffer.params # Absent
    THEN <<TRUE, function_to([tag |-> buffer.call, id |-> to_uint(buffer.id),
                              name |-> to_string(buffer.name),
                              params |-> to_generic(buffer.params)])>>
    ELSE <<FALSE, Monostate>>

\* rfl::json::read<result_data>
read_result(buffer) ==
    IF /\ buffer.kind = "object"
       /\ is_bool(buffer.resolve)
       /\ is_uint(buffer.id)
       /\ buffer.result # Absent
    THEN <<TRUE, result_to([tag |-> buffer.resolve, id |-> to_uint(buffer.id),
                            result |-> to_generic(buffer.result)])>>
    ELSE <<FALSE, Monostate>>

\* result.value() of a failed read throws
Thrown == [kind |-> "exception", id |-> 0, name |-> "", params |-> NoGeneric,
           result |-> NoGeneric]

\* parse_as<T>: nullopt when the read failed. <<has_value, value>>
parse_as_unchecked(result) == <<TRUE, IF result[1] THEN result[2] ELSE Thrown>>
parse_as(result) == IF ~result[1] THEN <<FALSE, Monostate>> ELSE <<TRUE, result[2]>>

\* serializer::parse
parse_result_first(data) ==
    IF parse_as(read_result(data))[1] THEN parse_as(read_result(data))[2]
    ELSE IF parse_as(read_function(data))[1] THEN parse_as(read_function(data))[2]
    ELSE Monostate
parse(data) ==
    IF parse_as(read_function(data))[1] THEN parse_as(read_function(data))[2]
    ELSE IF parse_as(read_result(data))[1] THEN parse_as(read_result(data))[2]
    ELSE Monostate

\* what hosted content sends for a call: the call envelope as JSON text
FunctionNames == {"f", "g"}
CallIds == {0, 7}
ArgLists == {<<>>, <<1, 2>>, <<2, 1>>}
from_uint(n) == (CHOOSE e \in UintTable : e[2] = n)[1]
from_string(str) == (CHOOSE e \in StringTable : e[2] = str)[1]
from_array(items) == (CHOOSE e \in ArrayTable : e[2] = items)[1]
serialize_call(id, name, args) ==
    [kind |-> "object", call |-> "true", resolve |-> Absent, id |-> from_uint(id),
     name |-> from_string(name), params |-> from_array(args), result |-> Absent]

NoCall == [id |-> 0, name |-> "", args |-> <<>>]
NoSer == [stage |-> "idle", origin |-> "none", wire |-> NonObject("empty"), sent |-> NoCall,
          out |-> Monostate]

\* a string arrives from hosted content
ser_receive(data) ==
    /\ ser.stage = "idle"
    /\ ser' = [stage |-> "wire", origin |-> "foreign", wire |-> data, sent |-> NoCall,
               out |-> Monostate]
    /\ UNCHANGED <<dvars, evars, alive, handle, bridge, lazy, svars, xvars>>

\* hosted content calls a native function
ser_call(id, name, args) ==
    /\ ser.stage = "idle"
    /\ ser' = [stage |-> "wire", origin |-> "call", wire |-> serialize_call(id, name, args),
               sent |-> [id |-> id, name |-> name, args |-> args], out |-> Monostate]
    /\ UNCHANGED <<dvars, evars, alive, handle, bridge, lazy, svars, xvars>>

\* the string is given to serializer::parse
ser_parse ==
    /\ ser.stage = "wire"
    /\ ser' = [ser EXCEPT !.stage = "parsed", !.out = parse(ser.wire)]
    /\ UNCHANGED <<dvars, evars, alive, handle, bridge, lazy, svars, xvars>>

\* =================================================================
\* saucer_handle: the webview of the C bindings and its message callback
\* =================================================================
Messages == {"hello", "{\"saucer:call\":true}"}
Null == "null"

\* the members m_on_message, m_on_message_with_arg, m_on_message_arg
Handles ==
    [m_on_message : {Null, "cb"}, m_on_message_with_arg : {Null, "cb_with_arg"},
     m_on_message_arg : {Null, "arg"}]

\* if (m_on_message_with_arg && m_on_message_arg)
with_arg_unchecked(h) == TRUE
with_arg_callable(h) == h.m_on_message_with_arg # Null /\ h.m_on_message_arg # Null

\* saucer_handle::on_message. handled is what saucer::webview::on_message
\* returns for the message, r and ra what the two user callbacks return.
\* <<result, callbacks invoked with their arguments>>
on_message_forwards_always(h, message, handled, r, ra) ==
    IF h.m_on_message # Null
    THEN <<r, <<[cb |-> h.m_on_message, message |-> message, arg |-> Null]>>>>
    ELSE IF h.m_on_message_with_arg # Null /\ h.m_on_message_arg # Null
    THEN <<ra, <<[cb |-> h.m_on_message_with_arg, message |-> message,
                  arg |-> h.m_on_message_arg]>>>>
    ELSE <<FALSE, <<>>>>
on_message(h, message, handled, r, ra) ==
    IF handled THEN <<TRUE, <<>>>>
    ELSE IF h.m_on_message # Null
    THEN <<r, <<[cb |-> h.m_on_message, message |-> message, arg |-> Null]>>>>
    ELSE IF with_arg_callable(h)
    THEN <<ra, <<[cb |-> h.m_on_message_with_arg, message |-> message,
                  arg |-> h.m_on_message_arg]>>>>
    ELSE <<FALSE, <<>>>>

NoHandle == [stage |-> "idle", h |-> [m_on_message |-> Null, m_on_message_with_arg |-> Null,
                                      m_on_message_arg |-> Null],
             message |-> "", handled |-> FALSE, r |-> FALSE, ra |-> FALSE,
             result |-> FALSE, invoked |-> <<>>]

\* the bindings install callbacks on the handle
handle_install(h) ==
    /\ handle.stage = "idle"
    /\ handle' = [handle EXCEPT !.stage = "installed", !.h = h]
    /\ UNCHANGED <<dvars, evars, alive, ser, bridge, lazy, svars, xvars>>

\* the backend delivers a message to the handle
handle_message(message, handled, r, ra) ==
    /\ handle.stage = "installed"
    /\ LET res == on_message(handle.h, message, handled, r, ra)
       IN handle' = [handle EXCEPT !.stage = "done", !.message = message,
                                   !.handled = handled, !.r = r, !.ra = ra,
                                   !.result = res[1], !.invoked = res[2]]
    /\ UNCHANGED <<dvars, evars, alive, ser, bridge, lazy, svars, xvars>>

\* =================================================================
\* RPC bridge: id counter, pending table, receive, call, teardown
\* =================================================================
\* native functions registered on the bridge, and names hosted content calls
Registered == {"f"}
CalledNames == {"f", "g"}
\* the threads of the host that call through the bridge
Callers == Workers
\* the id hosted content gives the calls it sends
InboundId == 7

\* the result envelope: tagged saucer:resolve, the id it answers, the result
serialize_result(id, value) ==
    [kind |-> "object", call |-> Absent, resolve |-> "true", id |-> from_uint(id),
     name |-> Absent, params |-> Absent, result |-> value]

\* the id counter only grows
next_id_reused(id_counter) == id_counter
next_id(id_counter) == id_counter + 1

NoFuture == [state |-> "none", by |-> 0, n |-> 0]

\* teardown: every resolver still in the pending table is invoked once with
\* the teardown failure
fail_none(future, pending) == future
fail_all(future, pending) ==
    [id \in DOMAIN future |->
        IF id \in pending
        THEN [state |-> "failed", by |-> 0, n |-> future[id].n + 1]
        ELSE future[id]]

\* a call to a name that is not registered is answered with an error result
not_found_silent(id, i) == <<>>
not_found(id, i) == <<[id |-> id, kind |-> "error", for |-> i]>>

NoBridge ==
    [alive |-> TRUE, id_counter |-> 0, pending |-> {}, local |-> [t \in Callers |-> 0],
     issued |-> <<>>, future |-> [id \in 1..(MaxCalls + 1) |-> NoFuture], arrivals |-> <<>>,
     calls_in |-> <<>>, delivered |-> <<>>, last |-> "none"]

\* call, first half: thread t allocates the next id
bridge_call_begin(t) ==
    /\ bridge.alive
    /\ bridge.local[t] = 0
    /\ Len(bridge.issued) < MaxCalls
    /\ bridge' = [bridge EXCEPT !.id_counter = next_id(@),
                                !.local[t] = next_id(bridge.id_counter),
                                !.issued = Append(@, next_id(bridge.id_counter)),
                                !.last = "allocated"]
    /\ UNCHANGED <<dvars, evars, alive, ser, handle, lazy, svars, xvars>>

\* call, second half: the resolver is recorded under the id, the call is
\* delivered to hosted content and the caller holds the future; on a bridge
\* torn down meanwhile the future fails at once
bridge_call_send(t) ==
    /\ bridge.local[t] # 0
    /\ LET id == bridge.local[t] IN
       bridge' = IF bridge.alive
                 THEN [bridge EXCEPT !.local[t] = 0,
                                     !.pending = @ \cup {id},
                                     !.future[id] = [state |-> "waiting", by |-> 0,
                                                     n |-> bridge.future[id].n],
                                     !.last = "sent"]
                 ELSE [bridge EXCEPT !.local[t] = 0,
                                     !.future[id] = [state |-> "failed", by |-> 0,
                                                     n |-> bridge.future[id].n + 1],
                                     !.last = "refused"]
    /\ UNCHANGED <<dvars, evars, alive, ser, handle, lazy, svars, xvars>>

\* receive(wire_string)
bridge_receive(data) ==
    /\ bridge.alive
    /\ LET m == parse(data) IN
       CASE m.kind = "result_data" ->
              IF m.id \in bridge.pending
              THEN bridge' = [bridge EXCEPT !.pending = @ \ {m.id},
                                            !.future[m.id] = [state |-> "resolved", by |-> m.id,
                                                              n |-> bridge.future[m.id].n + 1],
                                            !.arrivals = Append(@, m.id),
                                            !.last = "resolved"]
              ELSE bridge' = [bridge EXCEPT !.last = "discarded"]
         [] m.kind = "function_data" ->
              /\ Len(bridge.calls_in) < MaxInbound
              /\ LET i == Len(bridge.calls_in) + 1 IN
                 IF m.name \in Registered
                 THEN bridge' = [bridge EXCEPT !.calls_in = Append(@, [id |-> m.id,
                                                   name |-> m.name, state |-> "running",
                                                   ok |-> FALSE]),
                                               !.last = "invoked"]
                 ELSE bridge' = [bridge EXCEPT !.calls_in = Append(@, [id |-> m.id,
                                                   name |-> m.name, state |-> "answered",
                                                   ok |-> FALSE]),
                                               !.delivered = @ \o not_found(m.id, i),
                                               !.last = "not found"]
         [] OTHER -> bridge' = [bridge EXCEPT !.last = "ignored"]
    /\ bridge' # bridge
    /\ UNCHANGED <<dvars, evars, alive, ser, handle, lazy, svars, xvars>>

\* the native function invoked for received call i completes, with a value
\* (ok) or a failure; its result goes back to hosted content under the id
bridge_complete(i, ok) ==
    /\ i \in 1..Len(bridge.calls_in)
    /\ bridge.calls_in[i].state = "running"
    /\ bridge' = [bridge EXCEPT !.calls_in[i].state = "answered",
                                !.calls_in[i].ok = ok,
                                !.delivered = Append(@, [id |-> bridge.calls_in[i].id,
                                                         kind |-> IF ok THEN "value" ELSE "error",
                                                         for |-> i]),
                                !.last = "completed"]
    /\ UNCHANGED <<dvars, evars, alive, ser, handle, lazy, svars, xvars>>

\* the bridge is destroyed
bridge_destroy ==
    /\ bridge.alive
    /\ bridge' = [bridge EXCEPT !.alive = FALSE,
                                !.future = fail_all(bridge.future, bridge.pending),
                                !.pending = {},
                                !.last = "destroyed"]
    /\ UNCHANGED <<dvars, evars, alive, ser, handle, lazy, svars, xvars>>

\* =================================================================
\* stash<T>: one read-only accessor over owning / viewing / lazy data
\* =================================================================
Elems == {5, 7}
Vectors == UNION {[1..n -> Elems] : n \in 0..MaxElems}
\* memory owned elsewhere that a span may refer to
Addresses == {"m1", "m2"}
Spans == [addr : Addresses, items : Vectors]

\* the alternatives of variant_t, in the order of their declaration
variant_t == <<"owning", "viewing", "lazy">>

\* stash(variant_t data) : m_data(std::move(data))
stash(alt, addr, items, backing) ==
    [alt |-> alt, addr |-> addr, items |-> items, backing |-> backing]

stash_from(vec) == stash("owning", "own", vec, <<>>)
stash_view(span) == stash("viewing", span.addr, span.items, <<>>)
\* the stash holds the future; get() on it yields the stash the callback made
stash_lazy(made) == stash("lazy", "none", <<>>, <<made>>)
\* return {{}}: the variant is value-initialised to its first alternative
stash_empty ==
    IF variant_t[1] = "lazy" THEN stash("lazy", "none", <<>>, <<>>)
    ELSE stash(variant_t[1], IF variant_t[1] = "owning" THEN "own" ELSE "null", <<>>, <<>>)

\* what the callbacks of the lazy stashes return
Plain == {stash_from(v) : v \in Vectors} \cup {stash_view(s) : s \in Spans} \cup {stash_empty}
Stashes == Plain \cup {stash_lazy(b) : b \in Plain}

NoData == [addr |-> "none", items |-> <<>>]
Undefined == [addr |-> "undefined", items |-> <<>>]

\* stash<T>::data: the visitor calls data() of the vector or span, and
\* data.get()->data() of a future; a future without a state has no get()
RECURSIVE stash_data(_)
stash_data(s) ==
    IF s.alt = "lazy"
    THEN IF s.backing = <<>> THEN Undefined ELSE stash_data(s.backing[1])
    ELSE [addr |-> s.addr, items |-> s.items]

\* stash<T>::size, likewise
stash_size_capacity(s) == MaxElems
RECURSIVE stash_size(_)
stash_size(s) ==
    IF s.alt = "lazy"
    THEN IF s.backing = <<>> THEN -1 ELSE stash_size(s.backing[1])
    ELSE Len(s.items)

NoStash == [stage |-> "idle", how |-> "none", n |-> 0, made |-> stash_empty,
            data |-> NoData, size |-> 0, reads |-> 0]

\* stash<T>::from / view / lazy / empty produce a stash
stash_make(how, made, n) ==
    /\ box.stage = "idle"
    /\ box' = [box EXCEPT !.stage = "made", !.how = how, !.n = n, !.made = made]
    /\ UNCHANGED <<dvars, evars, ovars, xvars, web, req, ctor, spin>>

make_from == \E v \in Vectors : stash_make("from", stash_from(v), Len(v))
make_view == \E s \in Spans : stash_make("view", stash_view(s), Len(s.items))
make_lazy == \E b \in Plain : stash_make("lazy", stash_lazy(b), Len(b.items))
make_empty == stash_make("empty", stash_empty, 0)

\* data() and size() of the stash that was made
stash_read ==
    /\ box.stage \in {"made", "read"}
    /\ box.reads < 2
    /\ box' = [box EXCEPT !.stage = "read", !.data = stash_data(box.made),
                          !.size = stash_size(box.made), !.reads = @ + 1]
    /\ UNCHANGED <<dvars, evars, ovars, xvars, web, req, ctor, spin>>

\* =================================================================
\* stash<T>::lazy: a deferred callback behind a shared_future
\* =================================================================
\* the holders of the stash: the one stash<T>::lazy returned, and its copies
Holders == 1..(MaxCopies + 1)
Accessors == {"data", "size"}

\* a copy of the stash copies the shared_future of .share(): it refers to the
\* shared state sid of its source, not to a state of its own (fresh)
copy_state_fresh(sid, fresh) == fresh
copy_state(sid, fresh) == sid

\* std::launch::deferred: the first get() on the shared state runs the
\* function, in the calling thread; a get() that finds it started waits
get_runs_always(status) == status # "running"
get_runs(status) == status = "deferred"

\* what the callback given to stash<T>::lazy may return when it is invoked
CallbackResults == {stash_from(<<5>>), stash_view([addr |-> "m1", items |-> <<5, 7>>])}

NoGot == [data |-> NoData, size |-> 0]

NoLazy ==
    [holder |-> [h \in Holders |-> IF h = 1 THEN 1 ELSE 0],
     shared |-> [sid \in Holders |-> IF sid = 1 THEN "deferred" ELSE "none"],
     value |-> [sid \in Holders |-> <<>>],
     invocations |-> 0,
     at |-> [t \in Threads |-> [pc |-> "idle", h |-> 0, op |-> "-", got |-> NoGot]]]

\* stash copy constructor
lazy_copy(h) ==
    /\ lazy.holder[h] # 0
    /\ \E n \in Holders :
          /\ lazy.holder[n] = 0
          /\ \A m \in Holders : m < n => lazy.holder[m] # 0
          /\ LET sid == copy_state(lazy.holder[h], n) IN
             lazy' = [lazy EXCEPT !.holder[n] = sid,
                                  !.shared[sid] = IF @ = "none" THEN "deferred" ELSE @]
    /\ UNCHANGED <<dvars, evars, alive, ser, handle, bridge, svars, xvars>>

\* stash<T>::data / stash<T>::size on holder h, thread t: data.get() begins
lazy_get(t, h, op) ==
    /\ lazy.at[t].pc \in {"idle", "returned"}
    /\ lazy.holder[h] # 0
    /\ LET sid == lazy.holder[h] IN
       IF get_runs(lazy.shared[sid])
       THEN lazy' = [lazy EXCEPT !.shared[sid] = "running",
                                 !.invocations = @ + 1,
                                 !.at[t] = [pc |-> "callback", h |-> h, op |-> op,
                                            got |-> NoGot]]
       ELSE lazy' = [lazy EXCEPT !.at[t] = [pc |-> "waiting", h |-> h, op |-> op,
                                            got |-> NoGot]]
    /\ UNCHANGED <<dvars, evars, alive, ser, handle, bridge, svars, xvars>>

\* std::invoke(callback) returns in the thread that ran it: the state holds
\* std::make_shared<stash>(what it returned) and is ready
lazy_ready(t) ==
    /\ lazy.at[t].pc = "callback"
    /\ \E r \in CallbackResults :
          lazy' = [lazy EXCEPT !.shared[lazy.holder[lazy.at[t].h]] = "ready",
                               !.value[lazy.holder[lazy.at[t].h]] = <<r>>,
                               !.at[t].pc = "waiting"]
    /\ UNCHANGED <<dvars, evars, alive, ser, handle, bridge, svars, xvars>>

\* data.get() returns the shared stash; data() / size() of it is returned
lazy_return(t) ==
    /\ lazy.at[t].pc = "waiting"
    /\ lazy.shared[lazy.holder[lazy.at[t].h]] = "ready"
    /\ LET held == lazy.value[lazy.holder[lazy.at[t].h]][1] IN
       lazy' = [lazy EXCEPT !.at[t].pc = "returned",
                            !.at[t].got = IF lazy.at[t].op = "data"
                                          THEN [data |-> stash_data(held), size |-> 0]
                                          ELSE [data |-> NoData, size |-> stash_size(held)]]
    /\ UNCHANGED <<dvars, evars, alive, ser, handle, bridge, svars, xvars>>

\* =================================================================
\* webview::handle_scheme / remove_scheme and the scheme pipeline
\* =================================================================
SchemeNames == {"app", "res"}
Resolvers == {"r1", "r2"}
Launch == {"sync", "async"}

NoHandler == [installed |-> FALSE, resolver |-> "none", policy |-> "none"]
\* scheme::handler{m_parent.get(), policy, std::move(resolver)}
handler(policy, resolver) == [installed |-> TRUE, resolver |-> resolver, policy |-> policy]

\* m_impl->schemes.contains(name)
contains(schemes, name) == schemes[name].installed
\* m_impl->schemes.emplace(name, handler): an existing element is kept
emplace(schemes, name, h) ==
    IF schemes[name].installed THEN schemes ELSE [schemes EXCEPT ![name] = h]
\* m_impl->schemes.erase(it)
erase_nothing(schemes, name) == schemes
erase(schemes, name) == [schemes EXCEPT ![name] = NoHandler]

\* QWebEngineProfile::installUrlSchemeHandler: a scheme that has a handler
\* keeps it; removeUrlSchemeHandler takes out the handler it is given
installUrlSchemeHandler(profile, name, h) ==
    IF profile[name] # "none" THEN profile ELSE [profile EXCEPT ![name] = h.resolver]
removeUrlSchemeHandler(profile, name, h) ==
    [n \in DOMAIN profile |-> IF n = name /\ profile[n] = h.resolver THEN "none" ELSE profile[n]]

NoOp == [op |-> "none", name |-> "none", resolver |-> "none", policy |-> "none",
         forwarded |-> FALSE, n |-> 0]
NoFetch == [stage |-> "idle", name |-> "none", policy |-> "none", resolver |-> "none",
            behaviour |-> "none", completion |-> "none", response |-> "none",
            status |-> "none", spins |-> 0, n |-> 0]
NoWeb == [schemes |-> [n \in SchemeNames |-> NoHandler],
          profile |-> [n \in SchemeNames |-> "none"],
          last |-> NoOp, fetch |-> NoFetch]

\* webview::handle_scheme(name, resolver, policy), called by thread t: off the
\* main thread the call is forwarded through dispatch and runs there
handle_scheme(t, name, resolver, policy) ==
    /\ web.last.n < MaxSchemeOps
    /\ LET op == [op |-> "handle_scheme", name |-> name, resolver |-> resolver,
                  policy |-> policy, forwarded |-> ~thread_safe(t), n |-> web.last.n + 1] IN
       IF contains(web.schemes, name)
       THEN web' = [web EXCEPT !.last = op]
       ELSE LET table == emplace(web.schemes, name, handler(policy, resolver)) IN
            web' = [web EXCEPT !.last = op,
                               !.schemes = table,
                               !.profile = installUrlSchemeHandler(@, name, table[name])]
    /\ UNCHANGED <<dvars, evars, ovars, xvars, box, req, ctor, spin>>

\* webview::remove_scheme(name), called by thread t
remove_scheme(t, name) ==
    /\ web.last.n < MaxSchemeOps
    /\ LET op == [op |-> "remove_scheme", name |-> name, resolver |-> "none",
                  policy |-> "none", forwarded |-> ~thread_safe(t), n |-> web.last.n + 1] IN
       IF ~contains(web.schemes, name)
       THEN web' = [web EXCEPT !.last = op]
       ELSE web' = [web EXCEPT !.last = op,
                               !.profile = removeUrlSchemeHandler(@, name, web.schemes[name]),
                               !.schemes = erase(@, name)]
    /\ UNCHANGED <<dvars, evars, ovars, xvars, box, req, ctor, spin>>

\* ---- the pipeline behind an installed handler
\* what the resolver does with the completion handle it is given: call it at
\* once, hand it to a worker that calls it later, fail, or return without
\* ever calling it (the handle is destroyed uncalled)
Behaviours == {"answer", "defer", "throw", "never"}
NoResponse == "no response"

\* the platform's native callback starts a request for a handled scheme
fetch_start(name) ==
    /\ web.fetch.stage \in {"idle", "returned"}
    /\ web.fetch.n < MaxRequests
    /\ web.profile[name] # "none"
    /\ web' = [web EXCEPT !.fetch = [NoFetch EXCEPT !.stage = "started", !.name = name,
                                       !.policy = web.schemes[name].policy,
                                       !.resolver = web.schemes[name].resolver,
                                       !.n = web.fetch.n + 1]]
    /\ UNCHANGED <<dvars, evars, ovars, xvars, box, req, ctor, spin>>

\* the pipeline invokes the resolver with the request and a completion handle
fetch_resolve(b) ==
    /\ web.fetch.stage = "started"
    /\ web' = [web EXCEPT !.fetch.stage = "invoked",
                          !.fetch.behaviour = b,
                          !.fetch.completion =
                              CASE b = "answer" -> "called"
                                [] b = "defer" -> "held"
                                [] b = "throw" -> "failed"
                                [] b = "never" -> "dropped",
                          !.fetch.response = IF b = "answer" THEN "ok" ELSE "none"]
    /\ UNCHANGED <<dvars, evars, ovars, xvars, box, req, ctor, spin>>

\* the holder of the handle calls it, from any thread: the completion is
\* marshalled onto the main loop
fetch_complete(t) ==
    /\ web.fetch.completion = "held"
    /\ web' = [web EXCEPT !.fetch.completion = "posted"]
    /\ UNCHANGED <<dvars, evars, ovars, xvars, box, req, ctor, spin>>

\* the wait of the sync policy ends when the response is ready, and also when
\* no response can come any more
spin_done_on_response(fetch) == fetch.response # "none"
spin_done(fetch) ==
    fetch.response # "none" \/ fetch.completion \in {"failed", "dropped"}

\* sync: the calling thread pumps one main-loop iteration; async: the request
\* stays deferred, and the main loop delivers a posted completion
fetch_pump ==
    /\ web.fetch.stage = "invoked"
    /\ ~spin_done(web.fetch)
    /\ web' = [web EXCEPT !.fetch.spins = IF web.fetch.policy = "sync" /\ @ < MaxSpins
                                          THEN @ + 1 ELSE @,
                          !.fetch.response = IF web.fetch.completion = "posted" THEN "ok" ELSE @,
                          !.fetch.completion = IF @ = "posted" THEN "called" ELSE @]
    /\ web'.fetch # web.fetch
    /\ UNCHANGED <<dvars, evars, ovars, xvars, box, req, ctor, spin>>

\* the request ends with the response, or with the fixed failure status
fetch_return ==
    /\ web.fetch.stage = "invoked"
    /\ spin_done(web.fetch)
    /\ web' = [web EXCEPT !.fetch.stage = "returned",
                          !.fetch.status = IF web.fetch.response # "none"
                                           THEN "ok" ELSE NoResponse]
    /\ UNCHANGED <<dvars, evars, ovars, xvars, box, req, ctor, spin>>

\* =================================================================
\* scheme::request: url / method / content / headers over the platform request
\* =================================================================
SchemeBackends == {"webkitgtk", "webkit"}
Methods == {"POST"}
\* header names as the platform spells them
HeaderNames == {"X-Token", "x-token", "Accept"}
LowerTable == {<<"X-Token", "x-token">>, <<"x-token", "x-token">>, <<"Accept", "accept">>,
               <<"accept", "accept">>}
lower(name) == (CHOOSE e \in LowerTable : e[1] = name)[2]

\* the header lists of a platform request: the platform compares names without
\* regard to case, so one request holds a name in one spelling only
HeaderLists ==
    {hs \in UNION {[1..n -> HeaderNames \X {"1"}] : n \in 0..2} :
        \A i, j \in 1..Len(hs) : i # j => lower(hs[i][1]) # lower(hs[j][1])}

\* the bodies: none, or bytes; the stream over "unreadable" bytes fails
NoBody == [present |-> FALSE, readable |-> TRUE, bytes |-> <<>>]
Bodies == {NoBody} \cup [present : {TRUE}, readable : {TRUE}, bytes : {<<>>, <<5>>, <<5, 7, 5>>}]
                   \cup {[present |-> TRUE, readable |-> FALSE, bytes |-> <<5>>]}

PlatformRequests == [url : {"app://x"}, method : Methods, headers : HeaderLists, body : Bodies]

\* sizeof(buffer) of the read loop, scaled down
BufferSize == 2

\* webkit_uri_scheme_request_get_http_body hands out (transfer full) a stream
\* over the body that starts at its beginning; first is where a stream the
\* request handed out before has been read up to
stream_start_shared(platform, first) == first
stream_start(platform, first) == 0

\* g_input_stream_read(stream, buffer, sizeof(buffer)): up to a buffer of the
\* bytes left, 0 at the end, -1 on failure
g_input_stream_read(body, pos) ==
    IF ~body.readable THEN -1
    ELSE IF Len(body.bytes) - pos < BufferSize THEN Len(body.bytes) - pos ELSE BufferSize

\* the read loop of content(): <<ok, bytes appended to arr, position reached>>
RECURSIVE read_loop(_, _, _)
read_loop(body, pos, arr) ==
    LET bytes_read == g_input_stream_read(body, pos) IN
    IF bytes_read = 0 THEN <<TRUE, arr, pos>>
    ELSE IF bytes_read = -1 THEN <<FALSE, <<>>, pos>>
    ELSE read_loop(body, pos + bytes_read,
                   arr \o SubSeq(body.bytes, pos + 1, pos + bytes_read))

\* request::content: <<the stash returned, position the stream was left at>>
content(be, platform, first) ==
    IF ~platform.body.present THEN <<stash_empty, first>>
    ELSE IF be = "webkit"
         THEN <<stash_from(platform.body.bytes), first>>
         ELSE LET r == read_loop(platform.body, stream_start(platform, first), <<>>) IN
              IF ~r[1] THEN <<stash_empty, r[3]>> ELSE <<stash_from(r[2]), r[3]>>

\* rtn.emplace(name, value) for each header the platform enumerates: the key
\* is the name as delivered, and a key that is present keeps its value
RECURSIVE emplace_all(_, _)
emplace_all(rtn, hs) ==
    IF hs = <<>> THEN rtn
    ELSE emplace_all(IF \E e \in rtn : e[1] = hs[1][1] THEN rtn ELSE rtn \cup {hs[1]}, Tail(hs))

\* request::headers
headers(be, platform) == emplace_all({}, platform.headers)

NoPlatform == [url |-> "none", method |-> "none", headers |-> <<>>, body |-> NoBody]
NoRead == [op |-> "none", on |-> 0, url |-> "none", method |-> "none", headers |-> {},
           content |-> stash_empty]
NoReq == [stage |-> "idle", backend |-> "none", platform |-> NoPlatform, received |-> NoPlatform,
          copied |-> FALSE, streamed |-> 0, last |-> NoRead, body1 |-> <<>>, keys |-> {},
          reads |-> 0, n |-> 0]

\* the platform hands a request to the pipeline: request::request(impl data)
request_receive(be, platform) ==
    /\ req.stage \in {"idle", "received"}
    /\ req.n < MaxRequests
    /\ req' = [NoReq EXCEPT !.stage = "received", !.backend = be, !.platform = platform,
                            !.received = platform, !.keys = req.keys, !.n = req.n + 1]
    /\ UNCHANGED <<dvars, evars, ovars, xvars, box, web, ctor, spin>>

\* request::request(const request &other): the copy wraps the same platform request
request_copy ==
    /\ req.stage = "received"
    /\ ~req.copied
    /\ req' = [req EXCEPT !.copied = TRUE]
    /\ UNCHANGED <<dvars, evars, ovars, xvars, box, web, ctor, spin>>

\* holder 1 is the request received, holder 2 its copy
Readable(on) == req.stage = "received" /\ req.reads < MaxReads /\ (on = 2 => req.copied)

request_url(on) ==
    /\ Readable(on)
    /\ req' = [req EXCEPT !.reads = @ + 1,
                          !.last = [NoRead EXCEPT !.op = "url", !.on = on, !.url = req.platform.url]]
    /\ UNCHANGED <<dvars, evars, ovars, xvars, box, web, ctor, spin>>

request_method(on) ==
    /\ Readable(on)
    /\ req' = [req EXCEPT !.reads = @ + 1,
                          !.last = [NoRead EXCEPT !.op = "method", !.on = on,
                                                  !.method = req.platform.method]]
    /\ UNCHANGED <<dvars, evars, ovars, xvars, box, web, ctor, spin>>

request_headers(on) ==
    /\ Readable(on)
    /\ LET rtn == headers(req.backend, req.platform) IN
       req' = [req EXCEPT !.reads = @ + 1,
                          !.keys = @ \cup {e[1] : e \in rtn},
                          !.last = [NoRead EXCEPT !.op = "headers", !.on = on, !.headers = rtn]]
    /\ UNCHANGED <<dvars, evars, ovars, xvars, box, web, ctor, spin>>

request_content(on) ==
    /\ Readable(on)
    /\ LET r == content(req.backend, req.platform, req.streamed) IN
       req' = [req EXCEPT !.reads = @ + 1,
                          !.streamed = r[2],
                          !.body1 = IF @ = <<>> THEN <<r[1]>> ELSE @,
                          !.last = [NoRead EXCEPT !.op = "content", !.on = on, !.content = r[1]]]
    /\ UNCHANGED <<dvars, evars, ovars, xvars, box, web, ctor, spin>>

\* =================================================================
\* window::window: the constructor and its assertion
\* =================================================================
\* assert(expr) of <cassert>: with NDEBUG defined the macro expands to nothing,
\* otherwise a false expr aborts the process
assert(ndebug, expr) == ndebug \/ expr

NoCtor == [ndebug |-> FALSE, made |-> <<>>, aborted |-> FALSE]

\* window::window(prefs), called by thread t: the body runs in t, there is no
\* forward through dispatch
window_new(t) ==
    /\ ~ctor.aborted
    /\ Len(ctor.made) < MaxConstructions
    /\ IF assert(ctor.ndebug, thread_safe(t))
       THEN ctor' = [ctor EXCEPT !.made = Append(@, t)]
       ELSE ctor' = [ctor EXCEPT !.aborted = TRUE]
    /\ UNCHANGED <<dvars, evars, ovars, xvars, box, web, req, spin>>

\* =================================================================
\* pdf::save / desktop::pick: the wait loop around application::run<false>
\* =================================================================
BlockingOps == {"pdf::save", "desktop::pick"}

\* what one run<false> may take and send: the event is taken with
\* NSEventMaskAny in NSDefaultRunLoopMode, so work of every kind qualifies
run_false_takes_own(kind) == kind = "finished"
run_false_takes(kind) == TRUE

NoSpin == [stage |-> "idle", op |-> "none", finished |-> FALSE, signal |-> "none",
           before |-> {}, n |-> 0]

\* the operation is called on the main thread, starts its platform request
\* and enters while (!finished) run<false>()
spin_begin(op) ==
    /\ spin.stage = "idle"
    /\ spin.n < MaxWaits
    /\ pc[MainThread] = "ready"
    /\ spin' = [stage |-> "spinning", op |-> op, finished |-> FALSE, signal |-> "none",
                before |-> log, n |-> spin.n + 1]
    /\ UNCHANGED <<dvars, evars, ovars, xvars, box, web, req, ctor>>

\* the platform finishes the request: its completion is queued for the main loop
spin_complete ==
    /\ spin.stage = "spinning"
    /\ spin.signal = "none"
    /\ spin' = [spin EXCEPT !.signal = "pending"]
    /\ UNCHANGED <<dvars, evars, ovars, xvars, box, web, req, ctor>>

\* an iteration of the wait loop whose run<false> serves the main queue
spin_run_queue ==
    /\ spin.stage = "spinning"
    /\ ~spin.finished
    /\ run_false_takes("queue")
    /\ RunHead

\* an iteration whose run<false> delivers the completion: the callback
\* stores finished (or sets the promise)
spin_run_finished ==
    /\ spin.stage = "spinning"
    /\ ~spin.finished
    /\ spin.signal = "pending"
    /\ run_false_takes("finished")
    /\ spin' = [spin EXCEPT !.signal = "delivered", !.finished = TRUE]
    /\ UNCHANGED <<dvars, evars, ovars, xvars, box, web, req, ctor>>

\* the loop condition fails: the operation returns
spin_end ==
    /\ spin.stage = "spinning"
    /\ spin.finished
    /\ spin' = [spin EXCEPT !.stage = "idle"]
    /\ UNCHANGED <<dvars, evars, ovars, xvars, box, web, req, ctor>>

\* the main loop proper serves the queue when no wait loop is on its stack
spin_outer ==
    /\ spin.stage = "idle"
    /\ LoopStep

\* =================================================================
\* win32 window::impl::wnd_proc, WM_SIZE: the tracked size state
\* =================================================================
\* the wParam values WM_SIZE is sent with
SizeKinds == {"SIZE_RESTORED", "SIZE_MINIMIZED", "SIZE_MAXIMIZED", "SIZE_MAXSHOW", "SIZE_MAXHIDE"}
\* the client sizes the window may have when the message arrives
Rects == {<<800, 600>>, <<1024, 768>>}

\* one fire of a window event, with its arguments
fire_flag(ev, flag) == [ev |-> ev, flag |-> flag, width |-> 0, height |-> 0]
fire_resize(rect) == [ev |-> "resize", flag |-> FALSE, width |-> rect[1], height |-> rect[2]]

\* switch (w_param) / switch (prev_state): the maximize and minimize events
size_events(w_param, prev) ==
    CASE w_param = "SIZE_MAXIMIZED" -> <<fire_flag("maximize", TRUE)>>
      [] w_param = "SIZE_MINIMIZED" -> <<fire_flag("minimize", TRUE)>>
      [] w_param = "SIZE_RESTORED" ->
            (CASE prev = "SIZE_MAXIMIZED" -> <<fire_flag("maximize", FALSE)>>
               [] prev = "SIZE_MINIMIZED" -> <<fire_flag("minimize", FALSE)>>
               [] OTHER -> <<>>)
      [] OTHER -> <<>>

\* the assignments to prev_state; a wParam matching no case leaves it alone
size_state_sticky(w_param, prev) ==
    IF w_param \in {"SIZE_MAXIMIZED", "SIZE_MINIMIZED"} THEN w_param ELSE prev
size_state(w_param, prev) ==
    IF w_param \in {"SIZE_MAXIMIZED", "SIZE_MINIMIZED", "SIZE_RESTORED"} THEN w_param ELSE prev

\* window::size() as the handler calls it: the size the window has now
window_size(rect) == rect

\* everything one WM_SIZE fires, in order: the switch, then resize
wm_size_resize_first(w_param, prev, rect) ==
    <<fire_resize(window_size(rect))>> \o size_events(w_param, prev)
wm_size_fires(w_param, prev, rect) ==
    size_events(w_param, prev) \o <<fire_resize(window_size(rect))>>

NoSize == [prev_state |-> "SIZE_RESTORED", rect |-> <<800, 600>>, log |-> <<>>]

\* case WM_SIZE of wnd_proc; the system has given the window its new size
\* before it sends the message
wm_size(w_param, rect) ==
    /\ Len(wsize.log) < MaxSizes
    /\ wsize' = [prev_state |-> size_state(w_param, wsize.prev_state),
                 rect |-> rect,
                 log |-> Append(wsize.log,
                                [w_param |-> w_param, rect |-> rect,
                                 out |-> wm_size_fires(w_param, wsize.prev_state, rect)])]
    /\ UNCHANGED <<dvars, evars, ovars, svars, view, job, dlg, picked, fut>>

\* =================================================================
\* Qt webview: execute and the DOM flag, the dev-tools page
\* =================================================================
Scripts == {"a()", "b()"}

\* one call of page()->runJavaScript, and whether the DOM was loaded then
runJavaScript(code, loaded) == [code |-> code, loaded |-> loaded]

\* if (!m_impl->dom_loaded) of webview::execute
must_queue_never(dom_loaded) == FALSE
must_queue(dom_loaded) == ~dom_loaded

\* webview::execute past the thread check: queue the code or run it
execute_on(v, code) ==
    IF must_queue(v.dom_loaded)
    THEN [v EXCEPT !.pending = Append(@, code)]
    ELSE [v EXCEPT !.ran = Append(@, runJavaScript(code, v.dom_loaded))]

\* the page reports the DOM as ready: the flag is set and the queued code is
\* executed in the order it was queued
RECURSIVE flush(_, _)
flush(v, codes) ==
    IF codes = <<>> THEN v ELSE flush(execute_on(v, Head(codes)), Tail(codes))

\* the dev-tools page: dev_page is <<>> (nullptr) or <<id>> of the view made
NullPage == <<>>

\* webview::set_dev_tools past the thread check
set_dev_tools_remake(v, enabled) ==
    IF ~enabled
    THEN [v EXCEPT !.inspector = NullPage, !.dev_page = NullPage]
    ELSE [v EXCEPT !.made = @ + 1, !.dev_page = <<v.made + 1>>,
                   !.inspector = <<v.made + 1>>, !.showing = <<v.made + 1>>]
set_dev_tools_on(v, enabled) ==
    IF v.dev_page = NullPage /\ ~enabled THEN v
    ELSE IF ~enabled
    THEN [v EXCEPT !.inspector = NullPage, !.dev_page = NullPage]
    ELSE IF v.dev_page = NullPage
    THEN [v EXCEPT !.made = @ + 1, !.dev_page = <<v.made + 1>>,
                   !.inspector = <<v.made + 1>>, !.showing = <<v.made + 1>>]
    ELSE [v EXCEPT !.showing = v.dev_page]

\* webview::dev_tools past the thread check
dev_tools_on(v) == v.dev_page # NullPage

\* window::m_impl->on_closed as the webview constructor sets it
on_closed_keeps(v) == v
on_closed(v) == set_dev_tools_on(v, FALSE)

NoViewOp == [op |-> "none", code |-> "none", enabled |-> FALSE, forwarded |-> FALSE,
             result |-> FALSE]
ViewOp(op, code, enabled, t, result) ==
    [op |-> op, code |-> code, enabled |-> enabled, forwarded |-> ~thread_safe(t),
     result |-> result]

NoView == [dom_loaded |-> FALSE, pending |-> <<>>, ran |-> <<>>,
           dev_page |-> NullPage, inspector |-> NullPage, showing |-> NullPage, made |-> 0,
           hook |-> "on_closed", destroyed |-> FALSE, last |-> NoViewOp, n |-> 0]

ViewStep(v) ==
    /\ ~view.destroyed
    /\ view.n < MaxViewOps
    /\ view' = [v EXCEPT !.n = view.n + 1]
    /\ UNCHANGED <<dvars, evars, ovars, svars, wsize, job, dlg, picked, fut>>

\* the loadStarted handler the constructor connects
load_started ==
    ViewStep([view EXCEPT !.dom_loaded = FALSE,
                          !.last = ViewOp("loadStarted", "none", FALSE, MainThread, FALSE)])

\* webview::execute(code) called by thread t
execute(t, code) ==
    ViewStep([execute_on(view, code) EXCEPT !.last = ViewOp("execute", code, FALSE, t, FALSE)])

\* the page's DOM became ready
dom_ready ==
    ViewStep([flush([view EXCEPT !.dom_loaded = TRUE, !.pending = <<>>], view.pending)
                 EXCEPT !.last = ViewOp("dom_ready", "none", FALSE, MainThread, FALSE)])

\* webview::set_dev_tools(enabled) called by thread t
set_dev_tools(t, enabled) ==
    ViewStep([set_dev_tools_on(view, enabled)
                 EXCEPT !.last = ViewOp("set_dev_tools", "none", enabled, t, FALSE)])

\* webview::dev_tools() called by thread t
dev_tools(t) ==
    ViewStep([view EXCEPT !.last = ViewOp("dev_tools", "none", FALSE, t, dev_tools_on(view))])

\* the window was closed: the window implementation invokes on_closed
window_closed ==
    ViewStep([on_closed(view) EXCEPT !.last = ViewOp("closed", "none", FALSE, MainThread, FALSE)])

\* webview::~webview: invoke on_closed, then empty it
webview_dtor ==
    ViewStep([on_closed(view) EXCEPT !.hook = "empty", !.destroyed = TRUE,
                 !.last = ViewOp("~webview", "none", FALSE, MainThread, FALSE)])

\* =================================================================
\* pdf::save: start the print job, then wait for its finished notification
\* =================================================================
PdfBackends == {"webkit", "webkitgtk", "qt", "webview2"}

\* whether the completion callback is attached before (or with) the call that
\* starts the job: g_signal_connect precedes webkit_print_operation_print, the
\* delegate and the completed handler are arguments of the starting call, Qt
\* connects pdfPrintingFinished after printToPdf
attached_at_start(be) == be # "qt"

\* when the platform raises the notification: inside the starting call
\* ("sync") or later from the main loop ("async"); QtWebEngine posts it to
\* the main loop on success and on failure alike
Emissions(be) == IF be = "qt" THEN {"async"} ELSE {"sync", "async"}

\* the interface queries at the head of the WebView2 save; the other
\* backends have no return before the wait loop
can_fail_early(be) == be = "webview2"

\* while (!finished)
save_loops(finished) == ~finished

\* Qt connects a lambda that captures the local finished by reference and
\* never disconnects it: from the second save on, the notification also runs
\* the lambdas of the saves that returned, which store through a reference to
\* a dead stack frame. What that store does is not defined: it may hit the
\* slot the live finished occupies, other memory, or fault
leaves_connection(be) == be = "qt"
DanglingStores == {"same slot", "other memory", "fault"}
StaleStores(stale) == IF stale THEN DanglingStores ELSE {"none"}

NoJob == [be |-> "none", stage |-> "idle", started |-> FALSE, signal |-> "none",
          finished |-> FALSE, forwarded |-> FALSE, spins |-> 0, n |-> 0,
          stale |-> FALSE, store |-> "none"]

\* pdf::save(settings) called by thread t, up to the wait loop
save(t, be, ready, emission) ==
    /\ job.stage \in {"idle", "returned"}
    /\ job.be \in {"none", be}
    /\ job.n < MaxSaves
    /\ emission \in Emissions(be)
    /\ ready \/ can_fail_early(be)
    /\ LET base == [NoJob EXCEPT !.be = be, !.n = job.n + 1, !.forwarded = ~thread_safe(t),
                                 !.stale = job.stale \/ (leaves_connection(be) /\ job.started)] IN
       job' = IF ~ready
              THEN [base EXCEPT !.stage = "returned"]
              ELSE IF emission = "async"
              THEN [base EXCEPT !.stage = "waiting", !.started = TRUE, !.signal = "printing"]
              ELSE IF attached_at_start(be)
              THEN [base EXCEPT !.stage = "waiting", !.started = TRUE,
                                !.signal = "delivered", !.finished = TRUE]
              ELSE [base EXCEPT !.stage = "waiting", !.started = TRUE, !.signal = "lost"]
    /\ UNCHANGED <<dvars, evars, ovars, svars, wsize, view, dlg, picked, fut>>

\* the platform finishes (or gives up) the job and queues the notification
print_finished ==
    /\ job.signal = "printing"
    /\ job' = [job EXCEPT !.signal = "pending"]
    /\ UNCHANGED <<dvars, evars, ovars, svars, wsize, view, dlg, picked, fut>>

\* one run<false>() of the wait loop that handles something else, or nothing
save_spin ==
    /\ job.stage = "waiting"
    /\ save_loops(job.finished)
    /\ job' = [job EXCEPT !.spins = IF @ < MaxSpins THEN @ + 1 ELSE @]
    /\ UNCHANGED <<dvars, evars, ovars, svars, wsize, view, dlg, picked, fut>>

\* one run<false>() of the wait loop that delivers the notification: the
\* connected callbacks run in the order they were connected, the one of this
\* save stores true into finished
save_notified(store) ==
    /\ job.stage = "waiting"
    /\ save_loops(job.finished)
    /\ job.signal = "pending"
    /\ store \in StaleStores(job.stale)
    /\ job' = IF store = "fault"
              THEN [job EXCEPT !.signal = "delivered", !.store = store, !.stage = "crashed"]
              ELSE [job EXCEPT !.signal = "delivered", !.store = store, !.finished = TRUE]
    /\ UNCHANGED <<dvars, evars, ovars, svars, wsize, view, dlg, picked, fut>>

\* the loop condition fails: save returns
save_return ==
    /\ job.stage = "waiting"
    /\ ~save_loops(job.finished)
    /\ job' = [job EXCEPT !.stage = "returned"]
    /\ UNCHANGED <<dvars, evars, ovars, svars, wsize, view, dlg, picked, fut>>

\* =================================================================
\* desktop::pick (gtk): the dialog, its completion callback and the promise
\* =================================================================
\* picker::type, in the order of the dialogs tuple
PickerTypes == {"file", "files", "folder", "save"}

\* the GFiles a dialog can hand back, and the local path of each
GFiles == {"file:///home/u/a.txt", "file:///home/u/b.txt"}
g_file_get_path(file) ==
    CASE file = "file:///home/u/a.txt" -> "/home/u/a.txt"
      [] file = "file:///home/u/b.txt" -> "/home/u/b.txt"

\* sequences over S of length lo..hi
SeqsOf(S, lo, hi) == UNION {[1..k -> S] : k \in lo..hi}

\* what the asynchronous dialog ends with
GtkOutcomes(type) ==
    {[status |-> s, files |-> <<>>] : s \in {"dismissed", "failed"}}
    \cup {[status |-> "selected", files |-> fs] :
             fs \in SeqsOf(GFiles, 1, IF type = "files" THEN MaxItems ELSE 1)}

\* gtk_file_dialog_*_finish: the selection, or NULL with an error set
NullValue == [null |-> TRUE, files |-> <<>>]
finish(outcome) ==
    IF outcome.status = "selected" THEN [null |-> FALSE, files |-> outcome.files] ELSE NullValue

\* picker::result_t<Type>: std::nullopt, one path, or a vector of paths
nullopt == [has |-> FALSE, paths |-> <<>>]
some(paths) == [has |-> TRUE, paths |-> paths]

\* convert(GFile *) and convert(GListModel *)
convert(files) == [i \in 1..Len(files) |-> g_file_get_path(files[i])]

\* the body of the completion callback: the values it passes to set_value
callback_sets_nullopt(value) == <<nullopt>>
callback_sets(value) ==
    IF value.null THEN <<nullopt>> ELSE <<some(convert(value.files))>>

\* std::promise::set_value: the shared state is set once, a second call throws
RECURSIVE set_values(_, _)
set_values(p, values) ==
    IF values = <<>> THEN p
    ELSE set_values(IF p.sets = 0
                    THEN [p EXCEPT !.sets = 1, !.value = Head(values)]
                    ELSE [p EXCEPT !.sets = @ + 1],
                    Tail(values))

\* fut.wait_for(0ms) != std::future_status::ready
pick_loops(p) == p.sets = 0

NoOutcome == [status |-> "none", files |-> <<>>]
NoDlg == [stage |-> "idle", type |-> "none", forwarded |-> FALSE,
          outcome |-> NoOutcome, task |-> "none", callbacks |-> 0,
          promise |-> [sets |-> 0, value |-> nullopt],
          result |-> nullopt, spins |-> 0, n |-> 0]

\* desktop::pick<Type>(opts) called by thread t, up to the wait loop: a fresh
\* dialog and promise, and the asynchronous open call
pick(t, type) ==
    /\ dlg.stage \in {"idle", "returned"}
    /\ dlg.n < MaxPicks
    /\ dlg' = [NoDlg EXCEPT !.stage = "waiting", !.type = type, !.task = "running",
                            !.forwarded = ~thread_safe(t), !.n = dlg.n + 1]
    /\ UNCHANGED <<dvars, evars, ovars, svars, wsize, view, job, picked, fut>>

\* the user closes the dialog, or it fails: the result is queued for the
\* main context
dialog_done(outcome) ==
    /\ dlg.task = "running"
    /\ outcome \in GtkOutcomes(dlg.type)
    /\ dlg' = [dlg EXCEPT !.task = "queued", !.outcome = outcome]
    /\ UNCHANGED <<dvars, evars, ovars, svars, wsize, view, job, picked, fut>>

\* one run<false>() of the wait loop that handles something else, or nothing
pick_spin ==
    /\ dlg.stage = "waiting"
    /\ pick_loops(dlg.promise)
    /\ dlg' = [dlg EXCEPT !.spins = IF @ < MaxSpins THEN @ + 1 ELSE @]
    /\ UNCHANGED <<dvars, evars, ovars, svars, wsize, view, job, picked, fut>>

\* one run<false>() of the wait loop that runs the completion callback
pick_callback ==
    /\ dlg.stage = "waiting"
    /\ pick_loops(dlg.promise)
    /\ dlg.task = "queued"
    /\ dlg' = [dlg EXCEPT !.task = "done", !.callbacks = @ + 1,
                          !.promise = set_values(@, callback_sets(finish(dlg.outcome)))]
    /\ UNCHANGED <<dvars, evars, ovars, svars, wsize, view, job, picked, fut>>

\* the future is ready: return fut.get()
pick_return ==
    /\ dlg.stage = "waiting"
    /\ ~pick_loops(dlg.promise)
    /\ dlg' = [dlg EXCEPT !.stage = "returned", !.result = dlg.promise.value]
    /\ UNCHANGED <<dvars, evars, ovars, svars, wsize, view, job, picked, fut>>

\* =================================================================
\* desktop::pick (win32, qt): the modal dialog and the collected paths
\* =================================================================
NativePickers == {"win32", "qt"}

\* the shell items IShellItemArray can hold; SIGDN_FILESYSPATH exists only
\* for items of the file system
ShellItems == {"a.txt", "b.txt", "This PC"}
GetDisplayName(item) ==
    CASE item = "a.txt" -> <<"C:\\Users\\u\\a.txt">>
      [] item = "b.txt" -> <<"C:\\Users\\u\\b.txt">>
      [] OTHER -> <<>>

\* the strings QFileDialog::selectedFiles can hold
QtFiles == {"/home/u/a.txt", "/home/u/b.txt"}

\* how many items a dialog of this type lets the user select
MostItems(type) == IF type = "files" THEN MaxItems ELSE 1

\* what the dialog calls give: CoCreateInstance failed ("no dialog"),
\* GetResults failed as it does after a cancel ("no results"), GetCount
\* failed ("no count"), or the items; Qt gives the list of selectedFiles()
DialogResult(status, items) == [status |-> status, items |-> items]
NativeResults(be, type) ==
    IF be = "win32"
    THEN {DialogResult(s, <<>>) : s \in {"no dialog", "no results", "no count"}}
         \cup {DialogResult("items", is) : is \in SeqsOf(ShellItems, 0, MostItems(type))}
    ELSE {DialogResult("items", is) : is \in SeqsOf(QtFiles, 0, MostItems(type))}

\* the loop over the items: an item that does not resolve is skipped
RECURSIVE collect(_, _)
collect(be, items) ==
    IF items = <<>> THEN <<>>
    ELSE (IF be = "win32" THEN GetDisplayName(Head(items)) ELSE <<Head(items)>>)
         \o collect(be, Tail(items))

\* the test before the result is taken: Qt returns nullopt for an empty
\* list, win32 has no such test
checks_empty(be) == be = "qt"

\* std::vector::front() on an empty vector is undefined: the call may yield
\* an indeterminate path or fault
FrontOfEmpty == {"indeterminate", "fault"}
Indeterminate == "<indeterminate>"

NoPicked == [be |-> "none", type |-> "none", forwarded |-> FALSE,
             given |-> DialogResult("none", <<>>), rtn |-> <<>>,
             result |-> nullopt, front_of_empty |-> FALSE, crashed |-> FALSE, n |-> 0]

\* desktop::pick<Type>(opts) called by thread t; the dialog is modal and the
\* call returns when it is closed
pick_native(t, be, type, given, ub) ==
    /\ ~picked.crashed
    /\ picked.n < MaxPicks
    /\ given \in NativeResults(be, type)
    /\ LET rtn == collect(be, given.items)
           call == [NoPicked EXCEPT !.be = be, !.type = type, !.given = given,
                                    !.forwarded = ~thread_safe(t), !.n = picked.n + 1]
       IN
       IF given.status # "items" \/ (checks_empty(be) /\ rtn = <<>>)
       THEN ub = "indeterminate" /\ picked' = call
       ELSE IF type = "files"
       THEN ub = "indeterminate" /\ picked' = [call EXCEPT !.rtn = rtn, !.result = some(rtn)]
       ELSE IF rtn # <<>>
       THEN ub = "indeterminate"
            /\ picked' = [call EXCEPT !.rtn = rtn, !.result = some(<<rtn[1]>>)]
       ELSE picked' = [call EXCEPT !.front_of_empty = TRUE,
                                   !.crashed = (ub = "fault"),
                                   !.result = IF ub = "fault" THEN nullopt
                                              ELSE some(<<Indeterminate>>)]
    /\ UNCHANGED <<dvars, evars, ovars, svars, wsize, view, job, dlg, fut>>

\* =================================================================
\* then(future, callback): a detached thread that waits and invokes
\* =================================================================
\* what a promise can put into the shared state of a std::future
FutureValues == {"v1", "v2"}
Settlements == {[state |-> "value", value |-> v] : v \in FutureValues}
               \cup {[state |-> "exception", value |-> "none"]}
NoSettlement == [state |-> "pending", value |-> "none"]

\* the thread std::thread{...} starts; it is none of the calling threads
ThenThread == "then-thread"

\* future.get() in the new thread: blocks until the state is ready, then
\* returns the value or rethrows the stored exception
get_blocks(shared) == shared.state = "pending"
get_throws(shared) == shared.state = "exception"

NoThen == [shared |-> NoSettlement, stage |-> "idle", caller |-> "none", returned |-> FALSE,
           ready_at_return |-> FALSE, invocations |-> <<>>, n |-> 0]

\* then(std::move(future), callback) called by thread t: construct the
\* thread, detach it, return; the future may or may not be ready by then
then(t, shared) ==
    /\ fut.stage \in {"idle", "invoked"}
    /\ fut.n < MaxThens
    /\ fut' = [NoThen EXCEPT !.shared = shared, !.stage = "spawned", !.caller = t,
                             !.returned = TRUE, !.ready_at_return = ~get_blocks(shared),
                             !.n = fut.n + 1]
    /\ UNCHANGED <<dvars, evars, ovars, svars, wsize, view, job, dlg, picked>>

\* the owner of the promise settles it
promise_set(settlement) ==
    /\ fut.stage = "spawned"
    /\ get_blocks(fut.shared)
    /\ fut' = [fut EXCEPT !.shared = settlement]
    /\ UNCHANGED <<dvars, evars, ovars, svars, wsize, view, job, dlg, picked>>

\* the detached thread: std::invoke(callback, future.get()); an exception
\* leaving the thread function calls std::terminate
then_thread ==
    /\ fut.stage = "spawned"
    /\ ~get_blocks(fut.shared)
    /\ fut' = IF get_throws(fut.shared)
              THEN [fut EXCEPT !.stage = "terminated"]
              ELSE [fut EXCEPT !.stage = "invoked",
                               !.invocations = Append(@, [by |-> ThenThread,
                                                          value |-> fut.shared.value,
                                                          ready |-> ~get_blocks(fut.shared)])]
    /\ UNCHANGED <<dvars, evars, ovars, svars, wsize, view, job, dlg, picked>>

XInit ==
    /\ wsize = NoSize
    /\ view = NoView
    /\ job = NoJob
    /\ dlg = NoDlg
    /\ picked = NoPicked
    /\ fut = NoThen

\* =================================================================
\* State of the components outside the dispatcher and the event registry
\* =================================================================
OInit ==
    /\ alive = [w \in Windows |-> TRUE]
    /\ ser = NoSer
    /\ handle = NoHandle
    /\ bridge = NoBridge
    /\ lazy = NoLazy
    /\ box = NoStash
    /\ web = NoWeb
    /\ req = NoReq
    /\ ctor = NoCtor
    /\ spin = NoSpin
    /\ XInit

NoFire == [msg |-> "none", w |-> NoArg, had |-> <<>>, ran |-> <<>>, blocked |-> FALSE,
           hadClosed |-> <<>>, ranClosed |-> <<>>, steps |-> <<>>]

EvInit ==
    /\ m_events = [w \in Windows |-> [k \in Kinds |-> <<>>]]
    /\ counter = [w \in Windows |-> [k \in Kinds |-> 0]]
    /\ calls = <<>>
    /\ fired = NoFire
    /\ shown = [w \in Windows |-> FALSE]
    /\ instances = [w \in Windows |-> "none"]
    /\ quits = 0
    /\ nreg = 0
    /\ nfire = 0

DInit ==
    /\ m_thread = MainThread
    /\ loop = "idle"
    /\ queue = <<>>
    /\ pc = [t \in Threads |-> "ready"]
    /\ win = [title |-> "", visible |-> FALSE, inst |-> FALSE, edge |-> "none",
              drag |-> FALSE, prev_data |-> FALSE]
    /\ equiv = TRUE
    /\ log = {}
    /\ nposted = 0
    /\ invoked = [i \in 1..MaxPosts |-> 0]
    /\ released = [i \in 1..MaxPosts |-> 0]

Init ==
    /\ backend \in Backends
    /\ DInit
    /\ EvInit
    /\ OInit

Next ==
    \/ \E t \in Threads, c \in Calls : Call(t, c)
    \/ \E t \in Threads, c \in PostCalls : user_dispatch(t, c)
    \/ Click
    \/ run
    \/ LoopStep
    \/ run_once
    \/ quit

Spec == Init /\ [][Next]_vars

\* posting and dispatching work while the loop starts, runs and stops
NextPost ==
    \/ \E t \in Threads : post(t)
    \/ \E t \in Threads, c \in PostCalls : Call(t, c)
    \/ \E t \in Threads, c \in PostCalls : user_dispatch(t, c)
    \/ run
    \/ LoopStep
    \/ run_once
    \/ quit

SpecPost == Init /\ [][NextPost]_vars

\* [NSApp run] keeps serving the main queue for as long as it runs
FairPost == SpecPost /\ WF_vars(LoopStep)

\* a win32 application: listeners come and go, windows are shown and closed
InitEv ==
    /\ backend = "win32"
    /\ DInit
    /\ EvInit
    /\ OInit

NextEv ==
    \/ \E w \in Listened, k \in Kinds, ans \in Policies \cup {NoArg} :
           ans \in Answers(k) /\ window_on(w, k, ans)
    \/ \E w \in Listened, k \in Kinds, ans \in Policies \cup {NoArg} :
           ans \in Answers(k) /\ window_once(w, k, ans)
    \/ \E w \in Listened, k \in Kinds, id \in 1..MaxListeners : window_remove(w, k, id)
    \/ \E w \in Listened, k \in Kinds : window_clear(w, k)
    \/ \E w \in Windows : window_show(w)
    \/ \E w \in Windows : wm_close(w)

SpecEv == InitEv /\ [][NextEv]_vars

\* windows with listeners are shown, closed and destroyed
InitDtor ==
    /\ backend \in Backends
    /\ DInit
    /\ EvInit
    /\ OInit

NextDtor ==
    \/ \E w \in Listened, k \in Kinds, ans \in Policies \cup {NoArg} :
           ans \in Answers(k) /\ live_on(w, k, ans)
    \/ \E w \in Listened, k \in Kinds, ans \in Policies \cup {NoArg} :
           ans \in Answers(k) /\ live_once(w, k, ans)
    \/ \E w \in Windows : live_show(w)
    \/ \E w \in Windows : live_close(w)
    \/ \E w \in Windows : destroy(w)

SpecDtor == InitDtor /\ [][NextDtor]_vars

\* strings given to serializer::parse
InitSer ==
    /\ backend = "none"
    /\ DInit
    /\ EvInit
    /\ OInit

NextSer ==
    \/ \E data \in Wires : ser_receive(data)
    \/ \E id \in CallIds, name \in FunctionNames, args \in ArgLists : ser_call(id, name, args)
    \/ ser_parse

SpecSer == InitSer /\ [][NextSer]_vars

\* messages delivered to a saucer_handle
InitHandle ==
    /\ backend = "none"
    /\ DInit
    /\ EvInit
    /\ OInit

NextHandle ==
    \/ \E h \in Handles : handle_install(h)
    \/ \E message \in Messages, handled \in BOOLEAN, r \in BOOLEAN, ra \in BOOLEAN :
           handle_message(message, handled, r, ra)

SpecHandle == InitHandle /\ [][NextHandle]_vars

\* a bridge between threads of the host and hosted content
InitBridge ==
    /\ backend = "none"
    /\ DInit
    /\ EvInit
    /\ OInit

NextBridge ==
    \/ \E t \in Callers : bridge_call_begin(t)
    \/ \E t \in Callers : bridge_call_send(t)
    \/ \E id \in 1..(MaxCalls + 1) : bridge_receive(serialize_result(id, "1"))
    \/ \E name \in CalledNames : bridge_receive(serialize_call(InboundId, name, <<>>))
    \/ bridge_receive(NonObject("text"))
    \/ \E i \in 1..MaxInbound, ok \in BOOLEAN : bridge_complete(i, ok)
    \/ bridge_destroy

SpecBridge == InitBridge /\ [][NextBridge]_vars

\* a lazy stash, copied and read by several threads
InitLazy ==
    /\ backend = "none"
    /\ DInit
    /\ EvInit
    /\ OInit

NextLazy ==
    \/ \E h \in Holders : lazy_copy(h)
    \/ \E t \in Threads, h \in Holders, op \in Accessors : lazy_get(t, h, op)
    \/ \E t \in Threads : lazy_ready(t)
    \/ \E t \in Threads : lazy_return(t)

SpecLazy == InitLazy /\ [][NextLazy]_vars

\* stashes made by each of the four factories, and read
InitStash ==
    /\ backend = "none"
    /\ DInit
    /\ EvInit
    /\ OInit

NextStash ==
    \/ make_from
    \/ make_view
    \/ make_lazy
    \/ make_empty
    \/ stash_read

SpecStash == InitStash /\ [][NextStash]_vars

\* threads installing and removing scheme handlers on one webview
InitScheme ==
    /\ backend = "none"
    /\ DInit
    /\ EvInit
    /\ OInit

NextScheme ==
    \/ \E t \in Threads, n \in SchemeNames, r \in Resolvers, p \in Launch :
          handle_scheme(t, n, r, p)
    \/ \E t \in Threads, n \in SchemeNames : remove_scheme(t, n)

SpecScheme == InitScheme /\ [][NextScheme]_vars

\* win32 windows with a few listeners, shown and closed in any order
NextClose ==
    \/ \E w \in Listened, k \in Kinds, ans \in Policies \cup {NoArg} :
           ans \in Answers(k) /\ live_on(w, k, ans)
    \/ \E w \in Listened, k \in Kinds, ans \in Policies \cup {NoArg} :
           ans \in Answers(k) /\ live_once(w, k, ans)
    \/ \E w \in Windows : window_show(w)
    \/ \E w \in Windows : wm_close(w)

SpecClose == InitEv /\ [][NextClose]_vars

\* threads constructing windows, in a build with or without NDEBUG
InitCtor ==
    /\ backend \in Backends
    /\ DInit
    /\ EvInit
    /\ alive = [w \in Windows |-> TRUE]
    /\ ser = NoSer /\ handle = NoHandle /\ bridge = NoBridge /\ lazy = NoLazy
    /\ box = NoStash /\ web = NoWeb /\ req = NoReq /\ spin = NoSpin
    /\ ctor \in {[NoCtor EXCEPT !.ndebug = b] : b \in BOOLEAN}
    /\ XInit

NextCtor == \E t \in Threads : window_new(t)

SpecCtor == InitCtor /\ [][NextCtor]_vars

\* the main thread in blocking operations while workers post and dispatch;
\* FairSpin adds that the main thread keeps executing the loop it is in
NextSpin ==
    \/ \E op \in BlockingOps : spin_begin(op)
    \/ spin_complete
    \/ spin_run_queue
    \/ spin_run_finished
    \/ spin_end
    \/ spin_outer
    \/ run
    \/ \E t \in Workers : post(t)
    \/ \E t \in Workers, c \in PostCalls : Call(t, c)

SpecSpin == Init /\ [][NextSpin]_vars

FairSpin ==
    /\ SpecSpin
    /\ WF_vars(spin_run_queue)
    /\ WF_vars(spin_run_finished)
    /\ WF_vars(spin_end)
    /\ WF_vars(spin_outer)

\* scheme requests received from the platform, copied and read
NextRequest ==
    \/ \E be \in SchemeBackends, platform \in PlatformRequests : request_receive(be, platform)
    \/ request_copy
    \/ \E on \in 1..2 : request_url(on)
    \/ \E on \in 1..2 : request_method(on)
    \/ \E on \in 1..2 : request_headers(on)
    \/ \E on \in 1..2 : request_content(on)

SpecRequest == InitScheme /\ [][NextRequest]_vars

\* requests to the schemes of one webview; FairFetch adds that the thread in
\* the native callback, the main loop and the holder of a handle keep running
NextFetch ==
    \/ \E n \in SchemeNames, r \in Resolvers, p \in Launch : handle_scheme(MainThread, n, r, p)
    \/ \E n \in SchemeNames : fetch_start(n)
    \/ \E b \in Behaviours : fetch_resolve(b)
    \/ \E t \in Workers : fetch_complete(t)
    \/ fetch_pump
    \/ fetch_return

SpecFetch == InitScheme /\ [][NextFetch]_vars

FairFetch ==
    /\ SpecFetch
    /\ WF_vars(\E b \in Behaviours : fetch_resolve(b))
    /\ WF_vars(\E t \in Workers : fetch_complete(t))
    /\ WF_vars(fetch_pump)
    /\ WF_vars(fetch_return)

\* WM_SIZE messages of every kind reaching one win32 window
NextSize == \E k \in SizeKinds, r \in Rects : wm_size(k, r)

SpecSize == Init /\ [][NextSize]_vars

\* scripts handed to one Qt webview while its page loads and reloads
NextExec ==
    \/ load_started
    \/ dom_ready
    \/ \E t \in Threads, code \in Scripts : execute(t, code)

SpecExec == Init /\ [][NextExec]_vars

\* the dev tools of one Qt webview switched, queried, and the window closed
NextDev ==
    \/ \E t \in Threads, e \in BOOLEAN : set_dev_tools(t, e)
    \/ \E t \in Threads : dev_tools(t)
    \/ window_closed
    \/ webview_dtor

SpecDev == Init /\ [][NextDev]_vars

\* pdf::save on each backend; FairPdf adds that the platform finishes the job
\* it started and that the main thread keeps executing the wait loop
NextPdf ==
    \/ \E t \in Threads, be \in PdfBackends, ready \in BOOLEAN, e \in {"sync", "async"} :
          save(t, be, ready, e)
    \/ print_finished
    \/ save_spin
    \/ \E store \in DanglingStores \cup {"none"} : save_notified(store)
    \/ save_return

SpecPdf == Init /\ [][NextPdf]_vars

FairPdf ==
    /\ SpecPdf
    /\ WF_vars(print_finished)
    /\ WF_vars(\E store \in DanglingStores \cup {"none"} : save_notified(store))
    /\ WF_vars(save_return)

\* file dialogs of every picker type opened through the gtk desktop module
NextPick ==
    \/ \E t \in Threads, type \in PickerTypes : pick(t, type)
    \/ \E type \in PickerTypes : \E outcome \in GtkOutcomes(type) : dialog_done(outcome)
    \/ pick_spin
    \/ pick_callback
    \/ pick_return

SpecPick == Init /\ [][NextPick]_vars

\* modal file dialogs of every picker type on win32 and Qt
NextNative ==
    \E t \in Threads, be \in NativePickers, type \in PickerTypes, ub \in FrontOfEmpty :
        \E given \in NativeResults(be, type) : pick_native(t, be, type, given, ub)

SpecNative == Init /\ [][NextNative]_vars

\* futures handed to then from any thread, settled before or after the call;
\* FairThen adds that the detached thread gets to run
NextThen ==
    \/ \E t \in Threads, s \in Settlements \cup {NoSettlement} : then(t, s)
    \/ \E s \in Settlements : promise_set(s)
    \/ then_thread

SpecThen == Init /\ [][NextThen]_vars

FairThen == SpecThen /\ WF_vars(then_thread)

\* =================================================================
\* Properties
\* =================================================================
IsAscending(ids) == \A i, j \in 1..Len(ids) : i < j => ids[i] < ids[j]
IsPrefix(a, b) == Len(a) <= Len(b) /\ SubSeq(b, 1, Len(a)) = a

C2_SameAsOnMainThread == equiv

\* C3: every unit of work executed for post or dispatch observes
\* thread_safe() = TRUE while it runs, and thread_safe() is true exactly on
\* the thread that constructed the application.
C3_WorkObservesThreadSafe ==
    /\ \A e \in log : e.via \in {"queue", "post"} => e.safe
    /\ \A t \in Threads : thread_safe(t) <=> (t = MainThread)
C3_Witness ==
    /\ \E e \in log : e.via = "queue" /\ e.by \in Workers
    /\ \E e \in log : e.via = "post"

\* C4: dispatch and guarded operations called on the main thread never
\* enqueue and never wait: the work runs in place, so the main thread is
\* never blocked on its own queue.
C4_MainThreadRunsInPlace ==
    /\ pc[MainThread] = "ready"
    /\ \A i \in 1..Len(queue) : queue[i].from # MainThread
    /\ \A e \in log : e.by = MainThread => (e.via = "direct" /\ e.thread = MainThread)
C4_Witness ==
    /\ loop = "idle"
    /\ log # {}
    /\ \A e \in log : e.by = MainThread /\ e.via = "direct"
    /\ win.title = "a"
    /\ win.inst

\* C5: post returns without waiting and without running the callback; each
\* posted callback is invoked at most once, on the main thread, and released
\* exactly when it was invoked; while the loop keeps running it is invoked.
C5_PostedRunsOnce ==
    /\ [](\A i \in 1..MaxPosts :
            /\ invoked[i] <= 1
            /\ released[i] = invoked[i]
            /\ (i > nposted => invoked[i] = 0))
    /\ [](\A e \in log : e.via = "post" => e.thread = MainThread)
    /\ [][nposted' # nposted => (pc' = pc /\ invoked' = invoked /\ log' = log)]_vars
    /\ \A i \in 1..MaxPosts :
          (nposted >= i /\ loop = "running") ~> (invoked[i] = 1 \/ loop = "stopped")
C5_Witness ==
    /\ nposted = MaxPosts
    /\ \A i \in 1..MaxPosts : invoked[i] = 1 /\ released[i] = 1
    /\ loop = "running"

C7_OrderAndOnce ==
    /\ \A w \in Windows, k \in Kinds : IsAscending(Ids(m_events[w][k]))
    /\ IsAscending(Ids(fired.ran)) /\ IsAscending(Ids(fired.ranClosed))
    /\ (fired.msg = "WM_CLOSE" /\ ~fired.blocked) => fired.ranClosed = fired.hadClosed
    /\ \A key \in DOMAIN calls : calls[key] <= 1
C7_Witness ==
    /\ nfire = 2
    /\ ~fired.blocked
    /\ Len(fired.ranClosed) = 2
    /\ \E key \in DOMAIN calls :
          /\ key[2] = "closed"
          /\ calls[key] = 1
          /\ \A i \in 1..Len(fired.ranClosed) : fired.ranClosed[i].id # key[3]

C9_NoListenerNoVeto ==
    [][(nfire' = nfire + 1 /\ fired'.had = <<>>) =>
          /\ ~fired'.blocked
          /\ ~shown'[fired'.w]
          /\ instances'[fired'.w] = "none"
          /\ fired'.ranClosed = fired'.hadClosed
          /\ fired'.hadClosed = m_events[fired'.w]["closed"]]_vars
C9_Witness ==
    /\ fired.msg = "WM_CLOSE"
    /\ fired.had = <<>>
    /\ ~fired.blocked
    /\ Len(fired.ranClosed) = 1
    /\ quits = 1
    /\ \A w \in Windows : ~shown[w]

\* C10: a vetoed close suppresses the default action: the window is not
\* hidden, no closed listener is invoked, the instance table is unchanged and
\* quit is not requested.
C10_VetoSuppressesClose ==
    [][(nfire' = nfire + 1 /\ fired'.blocked) =>
          /\ shown' = shown
          /\ instances' = instances
          /\ quits' = quits
          /\ fired'.ranClosed = <<>>
          /\ m_events'[fired'.w]["closed"] = m_events[fired'.w]["closed"]
          /\ \A key \in DOMAIN calls : key[2] = "closed" => calls'[key] = calls[key]]_vars
C10_Witness ==
    /\ fired.msg = "WM_CLOSE"
    /\ fired.blocked
    /\ shown[fired.w]
    /\ instances[fired.w] = "true"
    /\ Len(fired.hadClosed) > 0
    /\ quits = 0
    /\ nfire = 1

\* C11: remove(kind, id) with the id on returned removes exactly that
\* listener: the other listeners of the kind keep their relative order, the
\* other kinds are untouched, and the id never fires again; clear(kind)
\* empties the kind and leaves every other kind unchanged.
C11_RemoveExactlyThat ==
    [][\A w \in Listened, k \in Kinds :
          /\ \A id \in 1..MaxListeners :
                window_remove(w, k, id) =>
                    /\ \A i \in 1..Len(m_events'[w][k]) : m_events'[w][k][i].id # id
                    /\ m_events'[w][k] = SelectSeq(m_events[w][k], LAMBDA l : l.id # id)
                    /\ \A w2 \in Windows, k2 \in Kinds :
                          <<w2, k2>> # <<w, k>> => m_events'[w2][k2] = m_events[w2][k2]
          /\ window_clear(w, k) =>
                    /\ m_events'[w][k] = <<>>
                    /\ \A w2 \in Windows, k2 \in Kinds :
                          <<w2, k2>> # <<w, k>> => m_events'[w2][k2] = m_events[w2][k2]
          /\ \A i \in 1..Len(m_events[w][k]) : m_events[w][k][i].id <= counter[w][k]
          /\ counter'[w][k] >= counter[w][k]
          /\ (fired' # fired) =>
                /\ \A i \in 1..Len(fired'.ran) :
                      \E j \in 1..Len(m_events[fired'.w]["close"]) :
                          m_events[fired'.w]["close"][j] = fired'.ran[i]
                /\ \A i \in 1..Len(fired'.ranClosed) :
                      \E j \in 1..Len(m_events[fired'.w]["closed"]) :
                          m_events[fired'.w]["closed"][j] = fired'.ranClosed[i]]_vars
C11_Witness ==
    /\ Len(m_events["A"]["closed"]) = 2
    /\ m_events["A"]["closed"][1].id = 1
    /\ m_events["A"]["closed"][2].id = 3
    /\ fired.msg = "WM_CLOSE"
    /\ Len(fired.hadClosed) = 2
    /\ fired.ranClosed = fired.hadClosed
    /\ fired.ranClosed[1].id = 1 /\ fired.ranClosed[2].id = 3

\* C12: destroying a window empties every event slot of the window before
\* the native window is closed: no listener is invoked by the destruction
\* (close and closed listeners included) and none afterwards.
C12_DestroyInvokesNoListener ==
    /\ [](\A w \in Windows : ~alive[w] => \A k \in Kinds : m_events[w][k] = <<>>)
    /\ [][\A w \in Windows :
            /\ (alive[w] /\ ~alive'[w]) =>
                  /\ fired'.msg = "destroy" /\ fired'.w = w
                  /\ fired'.ran = <<>> /\ fired'.ranClosed = <<>>
                  /\ calls' = calls
            /\ ~alive[w] =>
                  /\ ~alive'[w]
                  /\ (fired' # fired => fired'.w # w)]_vars
C12_Witness ==
    /\ ~alive["A"]
    /\ fired.msg = "destroy" /\ fired.w = "A"
    /\ Len(fired.had) = 1 /\ fired.had[1].ans = "block"
    /\ Len(fired.hadClosed) = 1
    /\ fired.ran = <<>> /\ fired.ranClosed = <<>>
    /\ ~shown["A"]

\* what the two envelopes require of a wire string
ValidCall(w) ==
    /\ w.kind = "object"
    /\ w.call \in {"true", "false"}
    /\ w.id \in {"0", "7"}
    /\ w.name \in {"\"f\"", "\"g\""}
    /\ w.params # Absent
ValidResult(w) ==
    /\ w.kind = "object"
    /\ w.resolve \in {"true", "false"}
    /\ w.id \in {"0", "7"}
    /\ w.result # Absent

\* C13: parse is total: every string yields exactly one of function_data,
\* result_data and monostate, and a string that is neither a valid call
\* envelope nor a valid result envelope yields monostate.
C13_ParseIsTotal ==
    ser.stage = "parsed" =>
        /\ ser.out.kind \in {"function_data", "result_data", "monostate"}
        /\ (~ValidCall(ser.wire) /\ ~ValidResult(ser.wire)) => ser.out = Monostate
        /\ ser.wire.kind # "object" => ser.out = Monostate
C13_Witness ==
    /\ ser.stage = "parsed"
    /\ ser.wire.kind = "truncated"
    /\ ser.out = Monostate

\* C14: an object tagged saucer:call with id, name and params yields a
\* function_data carrying exactly these; an object tagged saucer:resolve with
\* id and result yields a result_data carrying exactly these; nothing is a call
\* without the call tag or a result without the result tag; when both match
\* the call wins.
C14_ClassifiedByTag ==
    ser.stage = "parsed" =>
        /\ ValidCall(ser.wire) =>
              /\ ser.out.kind = "function_data"
              /\ from_uint(ser.out.id) = ser.wire.id
              /\ from_string(ser.out.name) = ser.wire.name
              /\ ser.out.params.text = ser.wire.params
        /\ (ValidResult(ser.wire) /\ ~ValidCall(ser.wire)) =>
              /\ ser.out.kind = "result_data"
              /\ from_uint(ser.out.id) = ser.wire.id
              /\ ser.out.result.text = ser.wire.result
        /\ ser.out.kind = "function_data" => ser.wire.call \in {"true", "false"}
        /\ ser.out.kind = "result_data" => ser.wire.resolve \in {"true", "false"}
C14_Witness ==
    /\ ser.stage = "parsed"
    /\ ValidCall(ser.wire) /\ ValidResult(ser.wire)
    /\ ser.out.kind = "function_data"
    /\ ser.out.id = 7 /\ ser.out.name = "g" /\ ser.out.params.items = <<2, 1>>

C16_ForwardsUnhandled ==
    handle.stage = "done" =>
        LET plain == handle.h.m_on_message # Null
            with_arg == handle.h.m_on_message_with_arg # Null /\ handle.h.m_on_message_arg # Null
        IN /\ handle.handled => (handle.result = TRUE /\ handle.invoked = <<>>)
           /\ (~handle.handled /\ plain) =>
                 /\ Len(handle.invoked) = 1
                 /\ handle.invoked[1].cb = "cb"
                 /\ handle.invoked[1].message = handle.message
                 /\ handle.result = handle.r
           /\ (~handle.handled /\ ~plain /\ with_arg) =>
                 /\ Len(handle.invoked) = 1
                 /\ handle.invoked[1].cb = "cb_with_arg"
                 /\ handle.invoked[1].message = handle.message
                 /\ handle.invoked[1].arg = "arg"
                 /\ handle.result = handle.ra
           /\ (~handle.handled /\ ~plain /\ ~with_arg) =>
                 (handle.result = FALSE /\ handle.invoked = <<>>)
C16_Witness ==
    /\ handle.stage = "done"
    /\ ~handle.handled
    /\ handle.h.m_on_message = "cb"
    /\ handle.r /\ handle.result
    /\ Len(handle.invoked) = 1 /\ handle.invoked[1].message = "hello"

\* C17: calls on one bridge get distinct, strictly increasing ids, also when
\* issued by different threads, and a future is resolved only by the result
\* carrying its own id, in whatever order results arrive.
C17_DistinctIdsOwnResult ==
    /\ \A i, j \in 1..Len(bridge.issued) : i < j => bridge.issued[i] < bridge.issued[j]
    /\ \A id \in DOMAIN bridge.future :
          /\ bridge.future[id].state = "resolved" => bridge.future[id].by = id
          /\ bridge.future[id].n <= 1
          /\ bridge.future[id].state = "waiting" <=> id \in bridge.pending
C17_Witness ==
    /\ bridge.arrivals = <<2, 1>>
    /\ bridge.future[1].state = "resolved" /\ bridge.future[2].state = "resolved"
    /\ bridge.issued = <<1, 2>>

\* C18: destroying a bridge with pending calls invokes every pending
\* resolver exactly once with the teardown failure; afterwards the pending
\* table is empty and no caller is left waiting.
C18_TeardownFailsPending ==
    /\ [](~bridge.alive =>
            /\ bridge.pending = {}
            /\ \A id \in DOMAIN bridge.future : bridge.future[id].state # "waiting")
    /\ [](\A id \in DOMAIN bridge.future : bridge.future[id].n <= 1)
    /\ [][(bridge.alive /\ ~bridge'.alive) =>
            \A id \in bridge.pending :
                /\ bridge'.future[id].state = "failed"
                /\ bridge'.future[id].n = bridge.future[id].n + 1]_vars
C18_Witness ==
    /\ ~bridge.alive
    /\ bridge.future[1].state = "failed" /\ bridge.future[2].state = "failed"
    /\ bridge.future[1].n = 1 /\ bridge.future[2].n = 1
    /\ bridge.last = "destroyed"

\* C19: a received call whose function finished, or whose name is not
\* registered, has exactly one result delivered back, with the call's id: a
\* value when the registered function succeeded, an error when it failed or
\* when the name is not registered.
C19_EveryCallAnswered ==
    \A i \in 1..Len(bridge.calls_in) :
        LET c == bridge.calls_in[i]
            answers == {k \in 1..Len(bridge.delivered) : bridge.delivered[k].for = i}
        IN /\ c.state = "running" => (answers = {} /\ c.name \in Registered)
           /\ c.name \notin Registered => c.state = "answered"
           /\ c.state = "answered" =>
                 /\ Cardinality(answers) = 1
                 /\ \A k \in answers :
                       /\ bridge.delivered[k].id = c.id
                       /\ bridge.delivered[k].kind = "value" <=> (c.name \in Registered /\ c.ok)
C19_Witness ==
    /\ Len(bridge.calls_in) = 2
    /\ bridge.calls_in[1].name = "g" /\ bridge.calls_in[2].name = "f"
    /\ bridge.calls_in[2].state = "answered" /\ ~bridge.calls_in[2].ok
    /\ Len(bridge.delivered) = 2
    /\ bridge.delivered[1].kind = "error" /\ bridge.delivered[2].kind = "error"

\* C20: the callback of a lazy stash is invoked at most once over the stash
\* and all of its copies, whatever the interleaving of data() and size()
\* calls of the threads, and exactly once as soon as any such call was made.
C20_LazyRunsOnce ==
    /\ lazy.invocations <= 1
    /\ (\E t \in Threads : lazy.at[t].pc # "idle") => lazy.invocations = 1
    /\ \A t \in Threads :
          lazy.at[t].pc = "returned" => lazy.shared[lazy.holder[lazy.at[t].h]] = "ready"
C20_Witness ==
    /\ lazy.invocations = 1
    /\ \E t1, t2 \in Threads :
          /\ t1 # t2
          /\ lazy.at[t1].pc = "returned" /\ lazy.at[t2].pc = "returned"
          /\ lazy.at[t1].h # lazy.at[t2].h
          /\ lazy.at[t1].op = "data" /\ lazy.at[t2].op = "size"

\* C21: a lazy stash invokes its callback neither when it is made nor when it
\* is copied; the first data() or size() computes the backing stash, and every
\* access that has returned, on the stash or on any copy, returned the data or
\* the size of that one backing stash, which is what the callback returned.
C21_LazyMemoized ==
    /\ (\A t \in Threads : lazy.at[t].pc = "idle") => lazy.invocations = 0
    /\ \A h \in Holders : lazy.holder[h] # 0 => lazy.holder[h] = lazy.holder[1]
    /\ \A t \in Threads :
          lazy.at[t].pc = "returned" =>
             /\ lazy.value[lazy.holder[1]] # <<>>
             /\ lazy.value[lazy.holder[1]][1] \in CallbackResults
             /\ lazy.at[t].op = "data" =>
                   lazy.at[t].got.data = stash_data(lazy.value[lazy.holder[1]][1])
             /\ lazy.at[t].op = "size" =>
                   lazy.at[t].got.size = stash_size(lazy.value[lazy.holder[1]][1])
C21_Witness ==
    /\ lazy.invocations = 1
    /\ \A h \in Holders : lazy.holder[h] # 0
    /\ \E t1, t2 \in Threads :
          /\ t1 # t2
          /\ lazy.at[t1].pc = "returned" /\ lazy.at[t2].pc = "returned"
          /\ lazy.at[t1].h = 1 /\ lazy.at[t2].h = MaxCopies + 1
          /\ lazy.at[t1].op = "data" /\ lazy.at[t2].op = "size"
          /\ lazy.at[t1].got.data.items = <<5, 7>> /\ lazy.at[t2].got.size = 2

C26_OneResolverPerScheme ==
    [][web'.last.n # web.last.n =>
         LET name == web'.last.name IN
         /\ \A n \in SchemeNames : n # name =>
               web'.schemes[n] = web.schemes[n] /\ web'.profile[n] = web.profile[n]
         /\ \A n \in SchemeNames :
               web'.profile[n] = web'.schemes[n].resolver
         /\ web'.last.op = "handle_scheme" =>
               IF web.schemes[name].installed
               THEN web'.schemes[name] = web.schemes[name]
               ELSE web'.schemes[name] =
                       [installed |-> TRUE, resolver |-> web'.last.resolver,
                        policy |-> web'.last.policy]
         /\ web'.last.op = "remove_scheme" =>
               /\ ~web'.schemes[name].installed
               /\ ~web.schemes[name].installed => web'.schemes = web.schemes]_vars
C26_Witness ==
    /\ web.last.n = 3
    /\ web.last.op = "handle_scheme" /\ web.last.name = "app"
    /\ web.last.resolver = "r1" /\ web.last.policy = "async"
    /\ web.schemes["app"] = [installed |-> TRUE, resolver |-> "r2", policy |-> "sync"]
    /\ web.profile["app"] = "r2"
    /\ web.last.forwarded

\* C24: the keys of the map scheme::request::headers() returns are
\* case-normalized: header names of the platform that differ only in letter
\* case come out as the same key, so a lookup by the normalized name finds
\* the header whatever case the platform delivered.
C24_HeaderKeysNormalized ==
    /\ \A a, b \in req.keys : lower(a) = lower(b) => a = b
    /\ req.last.op = "headers" =>
          \A i \in 1..Len(req.platform.headers) :
             \E e \in req.last.headers :
                /\ lower(e[1]) = lower(req.platform.headers[i][1])
                /\ e[2] = req.platform.headers[i][2]

\* C25: a received request is read-only: url(), method(), headers() and
\* content() leave the request as it was received, so every content() on it
\* or on its copy returns the same body bytes as the first one; content() of
\* a request without a body is the empty stash.
C25_RequestReadOnly ==
    /\ req.platform = req.received
    /\ req.last.op = "content" =>
          /\ req.body1 = <<req.last.content>>
          /\ ~req.platform.body.present => req.last.content = stash_empty
          /\ (req.platform.body.present /\ req.platform.body.readable) =>
                stash_data(req.last.content).items = req.platform.body.bytes
C25_Witness ==
    /\ req.backend = "webkitgtk"
    /\ req.reads = 3
    /\ req.last.op = "content" /\ req.last.on = 2
    /\ req.body1 = <<stash_from(<<5, 7, 5>>)>>
    /\ req.last.content = stash_from(<<5, 7, 5>>)
    /\ req.streamed = 3

\* C27: a window is only ever constructed on the main-loop thread: the
\* constructor is not forwarded through dispatch, and a construction on any
\* other thread is rejected, so every window that exists was constructed by
\* the main thread.
C27_ConstructedOnMainThread ==
    \A i \in 1..Len(ctor.made) : ctor.made[i] = m_thread

\* C28: while a blocking main-thread operation spins, every iteration is a
\* general main-loop iteration: a dispatch a worker submits during the wait
\* is run by the spinning main thread and returns to the worker although the
\* operation has not finished, so the waiting worker and the spinning main
\* thread never block each other.
C28_DispatchServedWhileSpinning ==
    \A w \in Workers :
       (pc[w] = "waiting" /\ spin.stage = "spinning" /\ ~spin.finished)
          ~> (pc[w] = "ready" \/ spin.finished)
C28_Witness ==
    /\ spin.stage = "spinning"
    /\ ~spin.finished
    /\ spin.signal = "none"
    /\ spin.before = {}
    /\ pc["w1"] = "ready"
    /\ \E e \in log : e.by = "w1" /\ e.via = "queue" /\ e.thread = MainThread

\* C29: a close request that is not vetoed runs its steps once each and in
\* this order: the close listeners, hiding the window, the closed event,
\* removing the window from the instance table, and only then the test for
\* quit. The closed event is fired after the window was hidden, and a vetoed
\* close stops after the close listeners: nothing is hidden, fired or removed.
C29_CloseStepsInOrder ==
    [][nfire' # nfire =>
         LET s == fired'.steps
             w == fired'.w
         IN IF fired'.blocked
            THEN /\ [i \in 1..Len(s) |-> s[i].step] = <<"close">>
                 /\ fired'.ranClosed = <<>>
                 /\ shown' = shown /\ instances' = instances /\ quits' = quits
            ELSE /\ [i \in 1..Len(s) |-> s[i].step] = <<"close", "hide", "closed", "erase", "quit">>
                 /\ fired'.ran = fired'.had
                 /\ fired'.ranClosed = fired'.hadClosed
                 /\ ~s[1].hidden /\ ~s[2].hidden
                 /\ s[3].hidden /\ ~s[3].erased
                 /\ s[5].hidden /\ s[5].erased
                 /\ ~shown'[w] /\ instances'[w] = "none"]_vars
C29_Witness ==
    /\ fired.msg = "WM_CLOSE"
    /\ ~fired.blocked
    /\ Len(fired.steps) = 5
    /\ fired.steps[3].step = "closed" /\ fired.steps[3].hidden
    /\ Len(fired.ran) = 1 /\ Len(fired.ranClosed) = 1
    /\ quits = 1

\* C30: over any sequence of show and close on several windows, a close that
\* is not vetoed requests quit exactly when no other window is marked as
\* shown in the instance table once the closing window is removed; a vetoed
\* close never does. So quit is not requested while another shown window is
\* still open, and a window that was never shown does not prevent it.
C30_QuitWhenLastShownCloses ==
    [][nfire' # nfire =>
         LET w == fired'.w IN
         /\ quits' \in {quits, quits + 1}
         /\ fired'.blocked => quits' = quits
         /\ ~fired'.blocked =>
               (quits' = quits + 1 <=> \A v \in Windows \ {w} : instances[v] # "true")
         /\ quits' = quits + 1 => \A v \in Windows \ {w} : ~shown[v]]_vars
C30_Witness ==
    /\ nfire = 2
    /\ quits = 1
    /\ fired.msg = "WM_CLOSE" /\ fired.w = "A" /\ ~fired.blocked
    /\ \A v \in Windows : instances[v] = "none" /\ ~shown[v]
    /\ Len(fired.steps) = 5

\* the size state before message i, told from the messages alone: the kind of
\* the last maximize / minimize / restore message, restored when there is none
RECURSIVE StateBefore(_)
StateBefore(i) ==
    IF i = 1 THEN "SIZE_RESTORED"
    ELSE IF wsize.log[i - 1].w_param \in {"SIZE_MAXIMIZED", "SIZE_MINIMIZED", "SIZE_RESTORED"}
         THEN wsize.log[i - 1].w_param
         ELSE StateBefore(i - 1)

Fired(i, ev, flag) ==
    \E k \in 1..Len(wsize.log[i].out) :
        wsize.log[i].out[k].ev = ev /\ wsize.log[i].out[k].flag = flag

\* C31: SIZE_MAXIMIZED fires maximize(true), SIZE_MINIMIZED fires minimize(true),
\* SIZE_RESTORED fires maximize(false) iff the state before it was maximized and
\* minimize(false) iff it was minimized; so every maximize(false) or
\* minimize(false) follows its (true) event with no restore in between
C31_SizeStateTracked ==
    \A i \in 1..Len(wsize.log) :
        LET m == wsize.log[i] IN
        /\ m.w_param = "SIZE_MAXIMIZED" => Fired(i, "maximize", TRUE)
        /\ m.w_param = "SIZE_MINIMIZED" => Fired(i, "minimize", TRUE)
        /\ m.w_param = "SIZE_RESTORED" =>
              /\ Fired(i, "maximize", FALSE) <=> StateBefore(i) = "SIZE_MAXIMIZED"
              /\ Fired(i, "minimize", FALSE) <=> StateBefore(i) = "SIZE_MINIMIZED"
        /\ \A ev \in {"maximize", "minimize"} :
              Fired(i, ev, FALSE) =>
                  \E j \in 1..(i - 1) :
                      /\ Fired(j, ev, TRUE)
                      /\ \A k \in (j + 1)..(i - 1) : wsize.log[k].w_param # "SIZE_RESTORED"

C31_Witness ==
    /\ Len(wsize.log) = 3
    /\ wsize.log[1].w_param = "SIZE_MAXIMIZED"
    /\ wsize.log[2].w_param = "SIZE_RESTORED" /\ Fired(2, "maximize", FALSE)
    /\ wsize.log[3].w_param = "SIZE_RESTORED"
    /\ ~Fired(3, "maximize", FALSE) /\ ~Fired(3, "minimize", FALSE)

\* C32: every WM_SIZE fires resize exactly once, with the width and height the
\* window has, and after the maximize / minimize event of the same message
C32_ResizeOnceAndLast ==
    \A i \in 1..Len(wsize.log) :
        LET m == wsize.log[i] IN
        /\ Cardinality({k \in 1..Len(m.out) : m.out[k].ev = "resize"}) = 1
        /\ m.out[Len(m.out)] = fire_resize(m.rect)

C32_Witness ==
    /\ Len(wsize.log) = 2
    /\ wsize.log[1].w_param = "SIZE_MAXSHOW" /\ Len(wsize.log[1].out) = 1
    /\ wsize.log[2].w_param = "SIZE_MINIMIZED" /\ Len(wsize.log[2].out) = 2
    /\ wsize.log[2].out[2] = fire_resize(<<1024, 768>>)

\* C33: execute never runs code while the DOM is not loaded: a load start
\* clears the flag, code given while it is clear is appended to the pending
\* queue and not run, code given while it is set is run and not queued
C33_ExecuteWaitsForDom ==
    [][/\ \A k \in 1..Len(view'.ran) : view'.ran[k].loaded
       /\ (view'.n # view.n /\ view'.last.op = "loadStarted") => ~view'.dom_loaded
       /\ (view'.n # view.n /\ view'.last.op = "execute") =>
             IF view.dom_loaded
             THEN /\ view'.ran = Append(view.ran, runJavaScript(view'.last.code, TRUE))
                  /\ view'.pending = view.pending
             ELSE /\ view'.pending = Append(view.pending, view'.last.code)
                  /\ view'.ran = view.ran]_vars

C33_Witness ==
    /\ view.n = 4
    /\ view.last.op = "execute" /\ view.last.code = "a()"
    /\ ~view.dom_loaded
    /\ view.pending = <<"a()">>
    /\ view.ran = <<runJavaScript("b()", TRUE)>>

\* C34: dev_tools() is true exactly when a dev-tools page exists;
\* set_dev_tools(true) leaves one, set_dev_tools(false) leaves none, repeating
\* either changes nothing and makes no second page; closing or destroying the
\* window leaves none
C34_DevToolsFollowPage ==
    [][view'.n # view.n =>
          /\ view'.last.op = "dev_tools" => (view'.last.result <=> view.dev_page # NullPage)
          /\ view'.last.op = "set_dev_tools" =>
                /\ view'.last.enabled <=> view'.dev_page # NullPage
                /\ (view'.last.enabled <=> view.dev_page # NullPage) =>
                      /\ view'.dev_page = view.dev_page
                      /\ view'.made = view.made
                /\ view'.made <= view.made + 1
          /\ view'.last.op \in {"closed", "~webview"} => view'.dev_page = NullPage
          /\ view'.inspector = view'.dev_page]_vars

C34_Witness ==
    /\ view.n = 4
    /\ view.last.op = "closed"
    /\ view.made = 1
    /\ view.dev_page = NullPage
    /\ view.inspector = NullPage

\* C35: pdf::save does not return before the finished notification of the job
\* it started was delivered, and a save that is waiting returns; it terminates
\* on every backend, also when the print could not be started
C35_SaveReturnsWhenFinished ==
    /\ [](job.stage = "returned" /\ job.started => job.signal = "delivered")
    /\ (job.stage = "waiting" ~> job.stage = "returned")

C37_SinglePickNulloptOrSelected ==
    (picked.type \in {"file", "folder", "save"}) =>
        /\ ~picked.front_of_empty
        /\ ~picked.crashed
        /\ \/ picked.result = nullopt
           \/ \E i \in 1..Len(picked.given.items) :
                 picked.result = some(collect(picked.be, <<picked.given.items[i]>>))
        /\ collect(picked.be, picked.given.items) = <<>> => picked.result = nullopt

\* C38: then returns without waiting for the future; the callback is invoked
\* exactly once, with the future's value, on a thread other than the caller's,
\* and not before the future is ready
C38_CallbackOnceWhenReady ==
    /\ [](/\ fut.stage # "idle" => fut.returned
          /\ Len(fut.invocations) <= 1
          /\ \A i \in 1..Len(fut.invocations) :
                /\ fut.invocations[i].by # fut.caller
                /\ fut.invocations[i].ready
                /\ fut.invocations[i].value = fut.shared.value)
    /\ ((fut.stage = "spawned" /\ fut.shared.state # "pending")
            ~> (fut.stage = "invoked" /\ Len(fut.invocations) = 1))

\* which user callbacks the last message reached
PlainInvoked == \E i \in 1..Len(handle.invoked) : handle.invoked[i].cb = "cb"
WithArgInvoked == \E i \in 1..Len(handle.invoked) : handle.invoked[i].cb = "cb_with_arg"

\* at most one user callback per message; an installed plain callback is the
\* one invoked, whatever it returns; the callback with argument is invoked
\* only with no plain callback and both its members non-null; a message that
\* reached no callback is reported as unhandled
UserCallbackChoice ==
    /\ Len(handle.invoked) <= 1
    /\ handle.h.m_on_message # Null =>
          /\ PlainInvoked /\ ~WithArgInvoked
          /\ handle.result = handle.r
    /\ WithArgInvoked =>
          /\ handle.h.m_on_message = Null
          /\ handle.h.m_on_message_with_arg # Null
          /\ handle.h.m_on_message_arg # Null
    /\ handle.invoked = <<>> => handle.result = FALSE

\* C39 as stated: the choice among the user callbacks holds for every message
C39_OneUserCallback ==
    handle.stage = "done" => UserCallbackChoice

\* C39: for a message the core webview did not handle, on_message invokes at
\* most one user callback: the plain one alone when it is installed, the one
\* with argument only when no plain one is installed and both it and its
\* argument are non-null, and otherwise none and the result is false; a
\* message the core webview handled reaches no user callback
C39_OneUserCallbackWhenUnhandled ==
    handle.stage = "done" =>
        /\ ~handle.handled => UserCallbackChoice
        /\ handle.handled => handle.invoked = <<>>

C39_Witness ==
    /\ handle.stage = "done"
    /\ ~handle.handled
    /\ handle.h.m_on_message = "cb"
    /\ handle.h.m_on_message_with_arg = "cb_with_arg" /\ handle.h.m_on_message_arg = "arg"
    /\ ~handle.r /\ handle.ra
    /\ ~handle.result
    /\ PlainInvoked /\ ~WithArgInvoked

====
